---- MODULE Spec2Model ----
(***************************************************************************)
(* CassandraBugTracker: the handlers of main.py (create_issue,             *)
(* create_comment, both definitions of update_issue, of which the router   *)
(* serves the first) over the tables that database.py creates, and the     *)
(* connection manager of database.py.  Served one at a time, a handler is  *)
(* one atomic action: it reads, computes its list of writes, executes them *)
(* one after another until one raises, and reports its outcome.            *)
(***************************************************************************)
EXTENDS Integers, Sequences, FiniteSets, TLC

VARIABLES
    db,      \* the keyspace: table name -> set of rows
    clock,   \* datetime.now(): the value the next get_current_time() returns
    uuids,   \* number of uuid4 values generate_uuid() has handed out
    last,    \* the most recent handler call: its input, what it read, what it reported
    stored,  \* issue_id -> the IssueResponse most recently returned for the issue
    clean,   \* the storage has failed no write of a create or of an update so far
    calls,   \* caller -> the create_issue call it has in progress, write by write
    manager, \* database.py, cassandra_manager: its cluster, its session and is_connected
    server   \* the process that serves the application: how it was launched and how far it got

vars == <<db, clock, uuids, last, stored, clean, calls, manager, server>>

(***************************************************************************)
(* Bounds of the model.                                                    *)
(***************************************************************************)
\* issues that may be created
MaxIssues == 2
\* readings of the clock: a create, a comment and an update that reaches get_current_time()
\* each read it once
MaxClock == 3

(***************************************************************************)
(* Python values.  A value carries its type, so that None, a str, a UUID   *)
(* and a member of a str-Enum stay apart and str() is a real conversion.   *)
(***************************************************************************)
None == [t |-> "NoneType", v |-> ""]
\* a field that the request body does not mention (IssueUpdate.dict(exclude_unset=True))
Unset == [t |-> "unset", v |-> ""]
PyStr(s) == [t |-> "str", v |-> s]
PyUUID(s) == [t |-> "UUID", v |-> s]

StatusValues == {"open", "in_progress", "resolved", "closed", "reopened"}
PriorityValues == {"low", "medium", "high", "critical"}
Status(s) == [t |-> "Status", v |-> s]
Priority(s) == [t |-> "Priority", v |-> s]

IsEnumMember(x) == x.t \in {"Status", "Priority"}

\* bool(x) with a fault: only None is falsy
Given(x) == x # None

\* bool(x): None and the empty string are falsy, a UUID and an Enum member are truthy
Truthy(x) == x # None /\ x # PyStr("")

\* x == y in Python: a member of a (str, Enum) class equals the str of its value
PyEq(x, y) ==
    IF x.t = "NoneType" \/ y.t = "NoneType" THEN x.t = y.t
    ELSE IF x.t = "UUID" \/ y.t = "UUID" THEN x = y
    ELSE x.v = y.v

\* Enum.__str__ of a member: "<class>.<NAME>", not the value
MemberName(x) ==
    CASE x = Status("open") -> "Status.OPEN"
      [] x = Status("in_progress") -> "Status.IN_PROGRESS"
      [] x = Status("resolved") -> "Status.RESOLVED"
      [] x = Status("closed") -> "Status.CLOSED"
      [] x = Status("reopened") -> "Status.REOPENED"
      [] x = Priority("low") -> "Priority.LOW"
      [] x = Priority("medium") -> "Priority.MEDIUM"
      [] x = Priority("high") -> "Priority.HIGH"
      [] x = Priority("critical") -> "Priority.CRITICAL"

\* str(x) for x that is not None
str(x) ==
    IF IsEnumMember(x) THEN PyStr(MemberName(x))
    ELSE IF x.t = "UUID" THEN PyStr(x.v)
    ELSE x

\* member.value
value(x) == PyStr(x.v)

(***************************************************************************)
(* The tables (database.py, create_tables).  issues_by_project has no      *)
(* component column: the component lives in issues_by_component alone.     *)
(***************************************************************************)
Tables == {"issues_by_project", "issues_by_status", "issues_by_assignee",
           "issues_by_priority", "issues_by_component", "issue_history", "issue_comments"}

Views == {"issues_by_status", "issues_by_assignee", "issues_by_priority", "issues_by_component"}

\* PrimaryKey with a fault: the clustering columns are left out of the key
PartitionKey(table) ==
    CASE table = "issues_by_project" -> {"project_id"}
      [] table = "issues_by_status" -> {"project_id", "status"}
      [] table = "issues_by_assignee" -> {"project_id", "assignee_id"}
      [] table = "issues_by_priority" -> {"project_id", "priority"}
      [] table = "issues_by_component" -> {"project_id", "component"}
      [] table = "issue_history" -> {"project_id", "issue_id"}
      [] table = "issue_comments" -> {"project_id", "issue_id"}

PrimaryKey(table) ==
    CASE table = "issues_by_project" -> {"project_id", "created_at", "issue_id"}
      [] table = "issues_by_status" -> {"project_id", "status", "created_at", "issue_id"}
      [] table = "issues_by_assignee" -> {"project_id", "assignee_id", "status", "created_at", "issue_id"}
      [] table = "issues_by_priority" -> {"project_id", "priority", "created_at", "issue_id"}
      [] table = "issues_by_component" -> {"project_id", "component", "created_at", "issue_id"}
      [] table = "issue_history" -> {"project_id", "issue_id", "changed_at", "event_id"}
      [] table = "issue_comments" -> {"project_id", "issue_id", "created_at", "comment_id"}

Columns(table) ==
    CASE table = "issues_by_project" ->
            {"project_id", "created_at", "issue_id", "title", "description", "status",
             "priority", "assignee_id", "reporter_id", "updated_at"}
      [] table = "issues_by_status" ->
            {"project_id", "status", "created_at", "issue_id", "title", "priority", "assignee_id"}
      [] table = "issues_by_assignee" ->
            {"project_id", "assignee_id", "status", "created_at", "issue_id", "title", "priority"}
      [] table = "issues_by_priority" ->
            {"project_id", "priority", "created_at", "issue_id", "title", "status", "assignee_id"}
      [] table = "issues_by_component" ->
            {"project_id", "component", "created_at", "issue_id", "title", "status",
             "priority", "assignee_id"}
      [] table = "issue_history" ->
            {"project_id", "issue_id", "changed_at", "event_id", "field_changed",
             "old_value", "new_value", "changed_by"}
      [] table = "issue_comments" ->
            {"project_id", "issue_id", "created_at", "comment_id", "user_id", "content"}

\* columns that hold a Python value (TEXT and UUID columns a handler may bind None to);
\* project_id, issue_id, event_id and the timestamps are always bound
ValueColumns == {"title", "description", "status", "priority", "assignee_id", "reporter_id",
                 "component", "old_value", "new_value", "changed_by", "user_id", "content"}

\* what a TEXT column keeps of a bound str-Enum member: its str value
Bound(x) == IF IsEnumMember(x) THEN value(x) ELSE x

BindRow(r) == [c \in DOMAIN r |-> IF c \in ValueColumns THEN Bound(r[c]) ELSE r[c]]

(***************************************************************************)
(* Statements the handlers execute.  A write is                            *)
(*   [op, table, key, set]: key binds the primary key, set the others.     *)
(* INSERT and UPDATE are both upserts on the primary key, DELETE removes   *)
(* the row of the key; a statement that binds None to a primary key        *)
(* column is rejected by the storage (InvalidRequest) and changes nothing. *)
(***************************************************************************)
Write(op, table, key, set) == [op |-> op, table |-> table, key |-> key, set |-> set]

NoColumns == [c \in {} |-> None]

SameKey(table, r, key) == \A c \in PrimaryKey(table) : r[c] = key[c]

NullKey(w) == \E c \in DOMAIN w.key : c \in ValueColumns /\ w.key[c] = None

Rejected(w) == NullKey([w EXCEPT !.key = BindRow(w.key)])

Upsert(rows, w) ==
    LET key == BindRow(w.key)
        set == BindRow(w.set)
        old == {r \in rows : SameKey(w.table, r, key)}
        blank == [c \in Columns(w.table) \ (DOMAIN key \cup DOMAIN set) |-> None]
        row == IF old = {} THEN set @@ key @@ blank
               ELSE set @@ (CHOOSE r \in old : TRUE)
    IN (rows \ old) \cup {row}

Delete(rows, w) == {r \in rows : ~SameKey(w.table, r, BindRow(w.key))}

\* db after session.execute of one write that the storage accepts
Execute(d, w) ==
    [d EXCEPT ![w.table] = IF w.op = "DELETE" THEN Delete(@, w) ELSE Upsert(@, w)]

(***************************************************************************)
(* A handler body issues its writes in order; the first one that raises    *)
(* ends the body (the except clause), the ones before it stay applied.     *)
(* failAt = k > 0 makes the storage fail the k-th write; 0 means it never  *)
(* fails by itself.  The result holds the tables, the number of writes     *)
(* that completed and whether a write raised.                              *)
(***************************************************************************)
RECURSIVE RunFrom(_, _, _, _)
RunFrom(d, ws, i, failAt) ==
    IF i > Len(ws) THEN [db |-> d, done |-> Len(ws), raised |-> FALSE]
    ELSE IF i = failAt \/ Rejected(ws[i]) THEN [db |-> d, done |-> i - 1, raised |-> TRUE]
    ELSE RunFrom(Execute(d, ws[i]), ws, i + 1, failAt)

\* Run with a fault: the write that raised is skipped and the ones after it are still issued
RunPastFailure(d, ws, failAt) ==
    LET run == RunFrom(d, ws, 1, failAt)
    IN IF run.raised
       THEN [db |-> RunFrom(run.db, ws, run.done + 2, 0).db, done |-> run.done, raised |-> TRUE]
       ELSE run

Run(d, ws, failAt) == RunFrom(d, ws, 1, failAt)

(***************************************************************************)
(* models.py: IssueResponse.  title, description, status and priority are  *)
(* required and not Optional, so None fails validation; a str that is a    *)
(* value of the Enum is coerced to the member.                             *)
(***************************************************************************)
IssueResponseValid(r) ==
    /\ r.title.t = "str"
    /\ r.description.t = "str"
    /\ r.status.t \in {"str", "Status"} /\ r.status.v \in StatusValues
    /\ r.priority.t \in {"str", "Priority"} /\ r.priority.v \in PriorityValues
    /\ r.assignee_id.t \in {"UUID", "NoneType"}
    /\ r.reporter_id.t = "UUID"
    /\ r.component.t \in {"str", "NoneType"}

IssueResponse(r) == [r EXCEPT !.status = Status(r.status.v), !.priority = Priority(r.priority.v)]

NoResponse ==
    [issue_id |-> 0, project_id |-> "", title |-> None, description |-> None, status |-> None,
     priority |-> None, assignee_id |-> None, reporter_id |-> None, component |-> None,
     created_at |-> 0, updated_at |-> 0]

\* the six fields of IssueUpdate, the mutable fields of an issue
Fields == {"title", "description", "status", "priority", "assignee_id", "component"}

NoState == [f \in Fields |-> None]

\* the status codes of the HTTPExceptions the handlers raise: no canonical row, no field in
\* the body, and the one the except clause raises for whatever exception it caught
NotFoundStatus == 404
NoFieldsStatus == 400
ErrorStatus == 500
\* the status of a response that the handler returns
OkStatus == 200

\* "except Exception" catches every exception of the body, an HTTPException too, and the
\* handler leaves with ErrorStatus
\* an HTTPException that the body of a handler raises, any other exception, and none
HTTPException(status_code) == [name |-> "HTTPException", status_code |-> status_code]
Exception(name) == [name |-> name, status_code |-> 0]
NoException == Exception("")

Except(exception) == [status_code |-> ErrorStatus, caught |-> exception]

(***************************************************************************)
(* What a handler reports: the status code of the response (200) or of the *)
(* HTTPException that leaves the handler, and the exception that the       *)
(* handler's except clause caught, if one did.                             *)
(***************************************************************************)
Report(op, project_id, issue_id, request, failAt, old, new, writes, run, status_code, caught, response) ==
    [op |-> op, project_id |-> project_id, issue_id |-> issue_id, request |-> request,
     failAt |-> failAt, before |-> db, now |-> clock, old |-> old, new |-> new, writes |-> writes,
     done |-> run.done, raised |-> run.raised,
     status_code |-> status_code, caught |-> caught, response |-> response]

NoRun == [db |-> db, done |-> 0, raised |-> FALSE]

(***************************************************************************)
(* main.py, create_issue.                                                  *)
(***************************************************************************)
\* create_issue_writes with a fault: the creation is recorded in the history as well
create_issue_writes_recorded(issue, issue_id, created_at, updated_at) ==
    <<Write("INSERT", "issues_by_project",
        [project_id |-> issue.project_id, created_at |-> created_at, issue_id |-> issue_id],
        [title |-> issue.title, description |-> issue.description,
         status |-> value(issue.status), priority |-> value(issue.priority),
         assignee_id |-> issue.assignee_id, reporter_id |-> issue.reporter_id,
         updated_at |-> updated_at]),
      Write("INSERT", "issues_by_status",
        [project_id |-> issue.project_id, status |-> value(issue.status),
         created_at |-> created_at, issue_id |-> issue_id],
        [title |-> issue.title, priority |-> value(issue.priority),
         assignee_id |-> issue.assignee_id]),
      Write("INSERT", "issues_by_priority",
        [project_id |-> issue.project_id, priority |-> value(issue.priority),
         created_at |-> created_at, issue_id |-> issue_id],
        [title |-> issue.title, status |-> value(issue.status),
         assignee_id |-> issue.assignee_id]),
      Write("INSERT", "issue_history",
        [project_id |-> issue.project_id, issue_id |-> issue_id,
         changed_at |-> created_at, event_id |-> issue_id],
        [field_changed |-> "status", old_value |-> None, new_value |-> value(issue.status),
         changed_by |-> issue.reporter_id])>>

\* create_issue_writes with a fault: the views are written first and the canonical row last
create_issue_writes_views_first(issue, issue_id, created_at, updated_at) ==
    LET query1 == Write("INSERT", "issues_by_project",
                    [project_id |-> issue.project_id, created_at |-> created_at, issue_id |-> issue_id],
                    [title |-> issue.title, description |-> issue.description,
                     status |-> value(issue.status), priority |-> value(issue.priority),
                     assignee_id |-> issue.assignee_id, reporter_id |-> issue.reporter_id,
                     updated_at |-> updated_at])
        query2 == Write("INSERT", "issues_by_status",
                    [project_id |-> issue.project_id, status |-> value(issue.status),
                     created_at |-> created_at, issue_id |-> issue_id],
                    [title |-> issue.title, priority |-> value(issue.priority),
                     assignee_id |-> issue.assignee_id])
        query3 == Write("INSERT", "issues_by_assignee",
                    [project_id |-> issue.project_id, assignee_id |-> issue.assignee_id,
                     status |-> value(issue.status), created_at |-> created_at, issue_id |-> issue_id],
                    [title |-> issue.title, priority |-> value(issue.priority)])
        query4 == Write("INSERT", "issues_by_priority",
                    [project_id |-> issue.project_id, priority |-> value(issue.priority),
                     created_at |-> created_at, issue_id |-> issue_id],
                    [title |-> issue.title, status |-> value(issue.status),
                     assignee_id |-> issue.assignee_id])
        query5 == Write("INSERT", "issues_by_component",
                    [project_id |-> issue.project_id, component |-> issue.component,
                     created_at |-> created_at, issue_id |-> issue_id],
                    [title |-> issue.title, status |-> value(issue.status),
                     priority |-> value(issue.priority), assignee_id |-> issue.assignee_id])
    IN  <<query2>>
        \o (IF Truthy(issue.assignee_id) THEN <<query3>> ELSE <<>>)
        \o <<query4>>
        \o (IF Truthy(issue.component) THEN <<query5>> ELSE <<>>)
        \o <<query1>>

create_issue_writes(issue, issue_id, created_at, updated_at) ==
    LET query1 == Write("INSERT", "issues_by_project",
                    [project_id |-> issue.project_id, created_at |-> created_at, issue_id |-> issue_id],
                    [title |-> issue.title, description |-> issue.description,
                     status |-> value(issue.status), priority |-> value(issue.priority),
                     assignee_id |-> issue.assignee_id, reporter_id |-> issue.reporter_id,
                     updated_at |-> updated_at])
        query2 == Write("INSERT", "issues_by_status",
                    [project_id |-> issue.project_id, status |-> value(issue.status),
                     created_at |-> created_at, issue_id |-> issue_id],
                    [title |-> issue.title, priority |-> value(issue.priority),
                     assignee_id |-> issue.assignee_id])
        query3 == Write("INSERT", "issues_by_assignee",
                    [project_id |-> issue.project_id, assignee_id |-> issue.assignee_id,
                     status |-> value(issue.status), created_at |-> created_at, issue_id |-> issue_id],
                    [title |-> issue.title, priority |-> value(issue.priority)])
        query4 == Write("INSERT", "issues_by_priority",
                    [project_id |-> issue.project_id, priority |-> value(issue.priority),
                     created_at |-> created_at, issue_id |-> issue_id],
                    [title |-> issue.title, status |-> value(issue.status),
                     assignee_id |-> issue.assignee_id])
        query5 == Write("INSERT", "issues_by_component",
                    [project_id |-> issue.project_id, component |-> issue.component,
                     created_at |-> created_at, issue_id |-> issue_id],
                    [title |-> issue.title, status |-> value(issue.status),
                     priority |-> value(issue.priority), assignee_id |-> issue.assignee_id])
    IN  <<query1, query2>>
        \o (IF Truthy(issue.assignee_id) THEN <<query3>> ELSE <<>>)
        \o <<query4>>
        \o (IF Truthy(issue.component) THEN <<query5>> ELSE <<>>)

\* lines 251-263: the IssueResponse that the handler returns
create_issue_response(issue, issue_id, created_at, updated_at) ==
    IssueResponse(
        [issue_id |-> issue_id, project_id |-> issue.project_id,
         title |-> issue.title, description |-> issue.description,
         status |-> value(issue.status), priority |-> value(issue.priority),
         assignee_id |-> issue.assignee_id, reporter_id |-> issue.reporter_id,
         component |-> issue.component,
         created_at |-> created_at, updated_at |-> updated_at])

\* POST /issues/ served in one step: no other request comes between its statements
create_issue(issue, failAt) ==
    /\ clock < MaxClock
    /\ Cardinality(db.issues_by_project) < MaxIssues
    /\ LET issue_id == uuids + 1
           created_at == clock
           updated_at == created_at
           writes == create_issue_writes(issue, issue_id, created_at, updated_at)
           run == Run(db, writes, failAt)
           response == create_issue_response(issue, issue_id, created_at, updated_at)
       IN /\ failAt <= Len(writes)
          /\ db' = run.db
          /\ clock' = clock + 1
          /\ uuids' = uuids + 1
          /\ IF run.raised
             THEN /\ last' = Report("create_issue", issue.project_id, issue_id, issue, failAt,
                                    NoState, NoState, writes, run, Except(Exception("StorageError")).status_code,
                                         Except(Exception("StorageError")).caught, NoResponse)
                  /\ stored' = stored
                  /\ clean' = FALSE
             ELSE /\ last' = Report("create_issue", issue.project_id, issue_id, issue, failAt,
                                    NoState, NoState, writes, run, OkStatus, NoException, response)
                  /\ stored' = stored @@ (issue_id :> response)
                  /\ clean' = clean

(***************************************************************************)
(* main.py, create_comment.  The issue addressed is not looked up.         *)
(***************************************************************************)
create_comment_writes(project_id, issue_id, comment, comment_id, created_at) ==
    <<Write("INSERT", "issue_comments",
        [project_id |-> project_id, issue_id |-> issue_id, created_at |-> created_at,
         comment_id |-> comment_id],
        [user_id |-> comment.user_id, content |-> comment.content])>>

create_comment(project_id, issue_id, comment, failAt) ==
    /\ clock < MaxClock
    /\ LET comment_id == uuids + 1
           created_at == clock
           writes == create_comment_writes(project_id, issue_id, comment, comment_id, created_at)
           run == Run(db, writes, failAt)
       IN /\ failAt <= Len(writes)
          /\ db' = run.db
          /\ clock' = clock + 1
          /\ uuids' = uuids + 1
          /\ last' = Report("create_comment", project_id, issue_id, comment, failAt,
                            NoState, NoState, writes, run,
                            IF run.raised THEN Except(Exception("StorageError")).status_code
                            ELSE OkStatus,
                            IF run.raised THEN Except(Exception("StorageError")).caught
                            ELSE NoException,
                            NoResponse)
          /\ UNCHANGED <<stored, clean>>

(***************************************************************************)
(* main.py, update_issue: the second definition (lines 749-1017).  It is   *)
(* registered for PUT /issues/{issue_id} after the first definition, so    *)
(* the router never dispatches a request to it; the name update_issue of   *)
(* the module is bound to it.  It is modelled as a function of the tables  *)
(* it would read.                                                          *)
(***************************************************************************)
\* dict.get(key, default) on updated_fields
Get(updated_fields, key, default) ==
    IF updated_fields[key] # Unset THEN updated_fields[key] ELSE default

In(key, updated_fields) == updated_fields[key] # Unset

\* isinstance(x, type): true of a class, never of a str or of an Enum member
IsType(x) == x.t = "type"

\* lines 800-803: the value of an Enum is taken only if the object is a class
EnumValue(x) == IF IsType(x) THEN value(x) ELSE x

\* SelectIssue with a fault: the rows come with a component column, as the first
\* definition of update_issue takes them to
SelectIssueWithComponent(d, project_id, issue_id) ==
    {r @@ [component |-> None] :
        r \in {q \in d.issues_by_project : q.project_id = project_id /\ q.issue_id = issue_id}}

\* the row of the issue among those of SELECT * FROM issues_by_project (lines 517-531 and
\* 757-764): a dict with the columns of the canonical table
SelectIssue(d, project_id, issue_id) ==
    {r \in d.issues_by_project : r.project_id = project_id /\ r.issue_id = issue_id}

\* SELECT component FROM issues_by_component ... LIMIT 1: the rows of the issue lie in
\* different partitions, so the storage may return any one of them
SelectComponent(d, project_id, issue_id) ==
    LET rows == {r \in d.issues_by_component : r.project_id = project_id /\ r.issue_id = issue_id}
    IN IF rows = {} THEN {None} ELSE {r.component : r \in rows}

\* lines 784-790: the old values
OldState(current_issue, current_component) ==
    [title |-> current_issue.title, description |-> current_issue.description,
     status |-> current_issue.status, priority |-> current_issue.priority,
     assignee_id |-> current_issue.assignee_id, component |-> current_component]

\* lines 792-803: the new values, payload merged over the old ones
NewState(old, updated_fields) ==
    [title |-> Get(updated_fields, "title", old.title),
     description |-> Get(updated_fields, "description", old.description),
     status |-> EnumValue(IF In("status", updated_fields)
                          THEN Get(updated_fields, "status", old.status) ELSE old.status),
     priority |-> EnumValue(IF In("priority", updated_fields)
                            THEN Get(updated_fields, "priority", old.priority) ELSE old.priority),
     assignee_id |-> IF In("assignee_id", updated_fields)
                     THEN Get(updated_fields, "assignee_id", old.assignee_id) ELSE old.assignee_id,
     component |-> IF In("component", updated_fields)
                   THEN Get(updated_fields, "component", old.component) ELSE old.component]

Change(field, old_value, new_value) ==
    [field_changed |-> field, old_value |-> old_value, new_value |-> new_value]

\* lines 810-829: the changes collected for the history
Changes(old, new, updated_fields) ==
    LET old_assignee_str == IF Truthy(old.assignee_id) THEN str(old.assignee_id) ELSE None
        new_assignee_str == IF Truthy(new.assignee_id) THEN str(new.assignee_id) ELSE None
        old_comp == IF Truthy(old.component) THEN old.component ELSE None
        new_comp == IF Truthy(new.component) THEN new.component ELSE None
    IN  (IF In("title", updated_fields) /\ ~PyEq(old.title, new.title)
         THEN <<Change("title", old.title, new.title)>> ELSE <<>>)
        \o (IF In("description", updated_fields) /\ ~PyEq(old.description, new.description)
            THEN <<Change("description", old.description, new.description)>> ELSE <<>>)
        \o (IF In("status", updated_fields) /\ ~PyEq(old.status, new.status)
            THEN <<Change("status", old.status, new.status)>> ELSE <<>>)
        \o (IF In("priority", updated_fields) /\ ~PyEq(old.priority, new.priority)
            THEN <<Change("priority", old.priority, new.priority)>> ELSE <<>>)
        \o (IF In("assignee_id", updated_fields) /\ ~PyEq(old_assignee_str, new_assignee_str)
            THEN <<Change("assignee_id", old_assignee_str, new_assignee_str)>> ELSE <<>>)
        \o (IF In("component", updated_fields) /\ ~PyEq(old_comp, new_comp)
            THEN <<Change("component", old_comp, new_comp)>> ELSE <<>>)

\* lines 831-842: the canonical row, updated in place
UpdateMain(project_uuid, created_at, issue_uuid, new, updated_at) ==
    <<Write("UPDATE", "issues_by_project",
        [project_id |-> project_uuid, created_at |-> created_at, issue_id |-> issue_uuid],
        [title |-> new.title, description |-> new.description, status |-> new.status,
         priority |-> new.priority, assignee_id |-> new.assignee_id, updated_at |-> updated_at])>>

\* lines 846-875: issues_by_status
SyncStatus(project_uuid, created_at, issue_uuid, old, new, updated_fields) ==
    LET status_changed == In("status", updated_fields) /\ ~PyEq(old.status, new.status)
    IN IF status_changed
       THEN <<Write("DELETE", "issues_by_status",
                [project_id |-> project_uuid, status |-> old.status,
                 created_at |-> created_at, issue_id |-> issue_uuid], NoColumns),
              Write("INSERT", "issues_by_status",
                [project_id |-> project_uuid, status |-> new.status,
                 created_at |-> created_at, issue_id |-> issue_uuid],
                [title |-> new.title, priority |-> new.priority, assignee_id |-> new.assignee_id])>>
       ELSE <<Write("UPDATE", "issues_by_status",
                [project_id |-> project_uuid, status |-> new.status,
                 created_at |-> created_at, issue_id |-> issue_uuid],
                [title |-> new.title, priority |-> new.priority, assignee_id |-> new.assignee_id])>>

\* lines 877-906: issues_by_priority
SyncPriority(project_uuid, created_at, issue_uuid, old, new, updated_fields) ==
    LET priority_changed == In("priority", updated_fields) /\ ~PyEq(old.priority, new.priority)
    IN IF priority_changed
       THEN <<Write("DELETE", "issues_by_priority",
                [project_id |-> project_uuid, priority |-> old.priority,
                 created_at |-> created_at, issue_id |-> issue_uuid], NoColumns),
              Write("INSERT", "issues_by_priority",
                [project_id |-> project_uuid, priority |-> new.priority,
                 created_at |-> created_at, issue_id |-> issue_uuid],
                [title |-> new.title, status |-> new.status, assignee_id |-> new.assignee_id])>>
       ELSE <<Write("UPDATE", "issues_by_priority",
                [project_id |-> project_uuid, priority |-> new.priority,
                 created_at |-> created_at, issue_id |-> issue_uuid],
                [title |-> new.title, status |-> new.status, assignee_id |-> new.assignee_id])>>

\* lines 908-945: issues_by_assignee
SyncAssignee(project_uuid, created_at, issue_uuid, old, new, updated_fields) ==
    LET status_changed == In("status", updated_fields) /\ ~PyEq(old.status, new.status)
        assignee_changed == In("assignee_id", updated_fields)
        assignee_or_status_changed == assignee_changed \/ status_changed
    IN IF assignee_or_status_changed
       THEN (IF Truthy(old.assignee_id)
             THEN <<Write("DELETE", "issues_by_assignee",
                      [project_id |-> project_uuid, assignee_id |-> old.assignee_id,
                       status |-> old.status, created_at |-> created_at, issue_id |-> issue_uuid],
                      NoColumns)>>
             ELSE <<>>)
            \o (IF Truthy(new.assignee_id)
                THEN <<Write("INSERT", "issues_by_assignee",
                         [project_id |-> project_uuid, assignee_id |-> new.assignee_id,
                          status |-> new.status, created_at |-> created_at, issue_id |-> issue_uuid],
                         [title |-> new.title, priority |-> new.priority])>>
                ELSE <<>>)
       ELSE IF Truthy(new.assignee_id)
            THEN <<Write("UPDATE", "issues_by_assignee",
                     [project_id |-> project_uuid, assignee_id |-> new.assignee_id,
                      status |-> new.status, created_at |-> created_at, issue_id |-> issue_uuid],
                     [title |-> new.title, priority |-> new.priority])>>
            ELSE <<>>

\* lines 947-979: issues_by_component
SyncComponent(project_uuid, created_at, issue_uuid, old, new, updated_fields) ==
    LET component_changed == In("component", updated_fields)
    IN IF component_changed
       THEN (IF Truthy(old.component)
             THEN <<Write("DELETE", "issues_by_component",
                      [project_id |-> project_uuid, component |-> old.component,
                       created_at |-> created_at, issue_id |-> issue_uuid], NoColumns)>>
             ELSE <<>>)
            \o (IF Truthy(new.component)
                THEN <<Write("INSERT", "issues_by_component",
                         [project_id |-> project_uuid, component |-> new.component,
                          created_at |-> created_at, issue_id |-> issue_uuid],
                         [title |-> new.title, status |-> new.status, priority |-> new.priority,
                          assignee_id |-> new.assignee_id])>>
                ELSE <<>>)
       ELSE IF Truthy(new.component)
            THEN <<Write("UPDATE", "issues_by_component",
                     [project_id |-> project_uuid, component |-> new.component,
                      created_at |-> created_at, issue_id |-> issue_uuid],
                     [title |-> new.title, status |-> new.status, priority |-> new.priority,
                      assignee_id |-> new.assignee_id])>>
            ELSE <<>>

\* lines 981-999: one history row per collected change, each with a fresh event_id
History(project_uuid, issue_uuid, updated_at, changes, changed_by, first_uuid) ==
    [j \in 1..Len(changes) |->
        Write("INSERT", "issue_history",
          [project_id |-> project_uuid, issue_id |-> issue_uuid,
           changed_at |-> updated_at, event_id |-> first_uuid + j],
          [field_changed |-> changes[j].field_changed,
           old_value |-> IF changes[j].old_value # None THEN str(changes[j].old_value) ELSE None,
           new_value |-> IF changes[j].new_value # None THEN str(changes[j].new_value) ELSE None,
           changed_by |-> changed_by])]

\* the writes of one update in the order the handler issues them
update_issue_writes(project_uuid, issue_uuid, current_issue, old, new, updated_fields, updated_at, first_uuid) ==
    LET created_at == current_issue.created_at
    IN  UpdateMain(project_uuid, created_at, issue_uuid, new, updated_at)
        \o SyncStatus(project_uuid, created_at, issue_uuid, old, new, updated_fields)
        \o SyncPriority(project_uuid, created_at, issue_uuid, old, new, updated_fields)
        \o SyncAssignee(project_uuid, created_at, issue_uuid, old, new, updated_fields)
        \o SyncComponent(project_uuid, created_at, issue_uuid, old, new, updated_fields)
        \o History(project_uuid, issue_uuid, updated_at,
                   Changes(old, new, updated_fields), current_issue.reporter_id, first_uuid)

\* generate_uuid() is called once before each history write that is attempted
EventIdsDrawn(writes, run) ==
    LET attempted == IF run.raised THEN run.done + 1 ELSE run.done
    IN Cardinality({j \in 1..attempted : writes[j].table = "issue_history"})

\* the handler ends without having reached a write
Refuse(op, project_id, issue_id, issue_update, exception) ==
    /\ last' = Report(op, project_id, issue_id, issue_update, 0, NoState, NoState, <<>>, NoRun,
                      Except(exception).status_code, Except(exception).caught, NoResponse)
    /\ UNCHANGED <<db, clock, uuids, stored, clean>>

\* the handler of lines 749-1017 serving a request on the tables d at the time now, the
\* storage failing no statement: the outcomes it can end in, one per component that
\* SELECT ... LIMIT 1 may return
update_issue(d, now, first_uuid, project_id, issue_id, issue_update) ==
    LET current == SelectIssue(d, project_id, issue_id)
        updated_fields == issue_update
        refused(exception) ==
            [status_code |-> Except(exception).status_code, caught |-> Except(exception).caught,
             db |-> d, writes |-> <<>>, response |-> NoResponse]
    IN IF current = {}
       THEN \* raise HTTPException(404), caught by "except Exception" and raised again as 500
            {refused(HTTPException(NotFoundStatus))}
       ELSE IF \A f \in Fields : ~In(f, updated_fields)
       THEN \* raise HTTPException(400), caught by "except Exception" and raised again as 500
            {refused(HTTPException(NoFieldsStatus))}
       ELSE LET outcome(current_issue, current_component) ==
                    LET old == OldState(current_issue, current_component)
                        new == NewState(old, updated_fields)
                        updated_at == now
                        writes == update_issue_writes(project_id, issue_id, current_issue, old, new,
                                                      updated_fields, updated_at, first_uuid)
                        run == Run(d, writes, 0)
                        fields == [issue_id |-> issue_id, project_id |-> project_id,
                                   title |-> new.title, description |-> new.description,
                                   status |-> new.status, priority |-> new.priority,
                                   assignee_id |-> new.assignee_id,
                                   reporter_id |-> current_issue.reporter_id,
                                   component |-> new.component,
                                   created_at |-> current_issue.created_at,
                                   updated_at |-> updated_at]
                    IN IF run.raised
                       THEN [status_code |-> Except(Exception("StorageError")).status_code,
                             caught |-> Except(Exception("StorageError")).caught,
                             db |-> run.db, writes |-> writes, response |-> NoResponse]
                       ELSE IF ~IssueResponseValid(fields)
                       THEN [status_code |-> Except(Exception("ValidationError")).status_code,
                             caught |-> Except(Exception("ValidationError")).caught,
                             db |-> run.db, writes |-> writes, response |-> NoResponse]
                       ELSE [status_code |-> OkStatus, caught |-> NoException,
                             db |-> run.db, writes |-> writes, response |-> IssueResponse(fields)]
            IN {outcome(current_issue, current_component) :
                    <<current_issue, current_component>>
                        \in current \X SelectComponent(d, project_id, issue_id)}

(***************************************************************************)
(* main.py, update_issue: the first definition (lines 505-745), the first  *)
(* handler registered for PUT /issues/{issue_id} and so the one that       *)
(* serves every such request.  It reads the component from the canonical  *)
(* row, which has no such column.                                          *)
(***************************************************************************)
\* lines 563-567 and 588, 619, 658-661, 696: a change is recorded for every key field the
\* payload mentions, title and description are never recorded
ChangesFirst(old, new, updated_fields) ==
    (IF In("status", updated_fields)
     THEN <<Change("status", old.status, new.status)>> ELSE <<>>)
    \o (IF In("priority", updated_fields)
        THEN <<Change("priority", old.priority, new.priority)>> ELSE <<>>)
    \o (IF In("assignee_id", updated_fields)
        THEN <<Change("assignee_id",
                      IF Truthy(old.assignee_id) THEN str(old.assignee_id) ELSE None,
                      IF Truthy(new.assignee_id) THEN str(new.assignee_id) ELSE None)>>
        ELSE <<>>)
    \o (IF In("component", updated_fields)
        THEN <<Change("component", old.component, new.component)>> ELSE <<>>)

\* lines 569-598: issues_by_status, recreated whenever the payload mentions status
SyncStatusFirst(project_uuid, created_at, issue_uuid, old, new, updated_fields) ==
    IF In("status", updated_fields)
    THEN <<Write("DELETE", "issues_by_status",
             [project_id |-> project_uuid, status |-> old.status,
              created_at |-> created_at, issue_id |-> issue_uuid], NoColumns),
           Write("INSERT", "issues_by_status",
             [project_id |-> project_uuid, status |-> new.status,
              created_at |-> created_at, issue_id |-> issue_uuid],
             [title |-> new.title, priority |-> new.priority, assignee_id |-> new.assignee_id])>>
    ELSE <<Write("UPDATE", "issues_by_status",
             [project_id |-> project_uuid, status |-> old.status,
              created_at |-> created_at, issue_id |-> issue_uuid],
             [title |-> new.title, priority |-> new.priority, assignee_id |-> new.assignee_id])>>

\* lines 600-629: issues_by_priority, recreated whenever the payload mentions priority
SyncPriorityFirst(project_uuid, created_at, issue_uuid, old, new, updated_fields) ==
    IF In("priority", updated_fields)
    THEN <<Write("DELETE", "issues_by_priority",
             [project_id |-> project_uuid, priority |-> old.priority,
              created_at |-> created_at, issue_id |-> issue_uuid], NoColumns),
           Write("INSERT", "issues_by_priority",
             [project_id |-> project_uuid, priority |-> new.priority,
              created_at |-> created_at, issue_id |-> issue_uuid],
             [title |-> new.title, status |-> new.status, assignee_id |-> new.assignee_id])>>
    ELSE <<Write("UPDATE", "issues_by_priority",
             [project_id |-> project_uuid, priority |-> old.priority,
              created_at |-> created_at, issue_id |-> issue_uuid],
             [title |-> new.title, status |-> new.status, assignee_id |-> new.assignee_id])>>

\* lines 631-672: issues_by_assignee
SyncAssigneeFirst(project_uuid, created_at, issue_uuid, old, new, updated_fields) ==
    LET assignee_changed == In("assignee_id", updated_fields)
        status_changed == In("status", updated_fields)
    IN IF assignee_changed \/ status_changed
       THEN (IF Truthy(old.assignee_id)
             THEN <<Write("DELETE", "issues_by_assignee",
                      [project_id |-> project_uuid, assignee_id |-> old.assignee_id,
                       status |-> old.status, created_at |-> created_at, issue_id |-> issue_uuid],
                      NoColumns)>>
             ELSE <<>>)
            \o (IF Truthy(new.assignee_id)
                THEN <<Write("INSERT", "issues_by_assignee",
                         [project_id |-> project_uuid, assignee_id |-> new.assignee_id,
                          status |-> new.status, created_at |-> created_at, issue_id |-> issue_uuid],
                         [title |-> new.title, priority |-> new.priority])>>
                ELSE <<>>)
       ELSE IF Truthy(new.assignee_id)
            THEN <<Write("UPDATE", "issues_by_assignee",
                     [project_id |-> project_uuid, assignee_id |-> new.assignee_id,
                      status |-> new.status, created_at |-> created_at, issue_id |-> issue_uuid],
                     [title |-> new.title, priority |-> new.priority])>>
            ELSE <<>>

\* the writes of the first definition in the order it issues them; issues_by_component is
\* handled as in the second definition (lines 674-707)
update_issue_first_writes(project_uuid, issue_uuid, current_issue, old, new, updated_fields, updated_at, first_uuid) ==
    LET created_at == current_issue.created_at
    IN  UpdateMain(project_uuid, created_at, issue_uuid, new, updated_at)
        \o SyncStatusFirst(project_uuid, created_at, issue_uuid, old, new, updated_fields)
        \o SyncPriorityFirst(project_uuid, created_at, issue_uuid, old, new, updated_fields)
        \o SyncAssigneeFirst(project_uuid, created_at, issue_uuid, old, new, updated_fields)
        \o SyncComponent(project_uuid, created_at, issue_uuid, old, new, updated_fields)
        \o History(project_uuid, issue_uuid, updated_at,
                   ChangesFirst(old, new, updated_fields), current_issue.reporter_id, first_uuid)

\* lines 539-544: plain dict.get, whose default current_issue[key] is evaluated first
NewStateFirst(old, updated_fields) == [f \in Fields |-> Get(updated_fields, f, old[f])]

\* update_issue_first with a fault: no row is read, and the canonical UPDATE is sent under
\* the time of the request (an UPDATE of a row that does not exist creates it)
update_issue_first_upserting(project_id, issue_id, issue_update, select_raises, failAt) ==
    /\ clock < MaxClock
    /\ ~select_raises
    /\ failAt = 0
    /\ LET new == [f \in Fields |-> Get(issue_update, f, None)]
           writes == UpdateMain(project_id, clock + 1, issue_id, new, clock)
           run == Run(db, writes, failAt)
       IN /\ db' = run.db
          /\ last' = Report("update_issue", project_id, issue_id, issue_update, failAt,
                            NoState, new, writes, run, ErrorStatus, Exception("KeyError"),
                            NoResponse)
    /\ clock' = clock + 1
    /\ UNCHANGED <<uuids, stored, clean>>

\* PUT /issues/{issue_id}.  select_raises: the storage fails the SELECT; failAt = k > 0: it
\* fails the k-th write
update_issue_first(project_id, issue_id, issue_update, select_raises, failAt) ==
    LET current == SelectIssue(db, project_id, issue_id)
        updated_fields == issue_update
    IN IF select_raises
       THEN \* db.execute raises, caught by "except Exception" and raised again as 500
            /\ failAt = 0
            /\ Refuse("update_issue", project_id, issue_id, issue_update, Exception("StorageError"))
       ELSE IF current = {}
       THEN \* raise HTTPException(404), caught by "except Exception" and raised again as 500
            /\ failAt = 0
            /\ Refuse("update_issue", project_id, issue_id, issue_update, HTTPException(NotFoundStatus))
       ELSE IF \A f \in Fields : ~In(f, updated_fields)
       THEN \* raise HTTPException(400), caught by "except Exception" and raised again as 500
            /\ failAt = 0
            /\ Refuse("update_issue", project_id, issue_id, issue_update, HTTPException(NoFieldsStatus))
       ELSE \E current_issue \in current :
            IF "component" \notin DOMAIN current_issue
            THEN \* current_issue['component'] raises KeyError before anything is written
                 /\ failAt = 0
                 /\ Refuse("update_issue", project_id, issue_id, issue_update, Exception("KeyError"))
            ELSE
            LET old == OldState(current_issue, current_issue.component)
                new == NewStateFirst(old, updated_fields)
                updated_at == clock
                writes == update_issue_first_writes(project_id, issue_id, current_issue, old, new,
                                                    updated_fields, updated_at, uuids)
                run == Run(db, writes, failAt)
                fields == [issue_id |-> issue_id, project_id |-> project_id,
                           title |-> new.title, description |-> new.description,
                           status |-> new.status, priority |-> new.priority,
                           assignee_id |-> new.assignee_id,
                           reporter_id |-> current_issue.reporter_id,
                           component |-> new.component,
                           created_at |-> current_issue.created_at, updated_at |-> updated_at]
                ok == ~run.raised /\ IssueResponseValid(fields)
            IN /\ clock < MaxClock
               /\ failAt <= Len(writes)
               /\ db' = run.db
               /\ clock' = clock + 1
               /\ uuids' = uuids + EventIdsDrawn(writes, run)
               /\ last' = Report("update_issue", project_id, issue_id, issue_update, failAt,
                                 old, new, writes, run,
                                 IF ok THEN OkStatus ELSE ErrorStatus,
                                 IF run.raised THEN Exception("StorageError")
                                 ELSE IF ok THEN NoException ELSE Exception("ValidationError"),
                                 IF ok THEN IssueResponse(fields) ELSE NoResponse)
               /\ stored' = IF ok THEN (issue_id :> IssueResponse(fields)) @@ stored ELSE stored
               /\ clean' = (clean /\ ok)

(***************************************************************************)
(* main.py, create_issue as requests in flight.  The handler never awaits, *)
(* but each db.execute is a round trip to a storage that other workers of  *)
(* the service use as well: between two statements of one call, the        *)
(* statements of another call may be executed.                             *)
(***************************************************************************)
\* the callers whose creates overlap, each sending one request
Callers == {"a", "b"}

Idle ==
    [pc |-> "idle", request |-> [f \in Fields |-> Unset], issue_id |-> 0, created_at |-> 0,
     before |-> [t \in Tables |-> {}], writes |-> <<>>, done |-> 0,
     status_code |-> 0, caught |-> NoException]

\* the creates that have not yet sent their canonical INSERT
Starting == {c \in Callers : calls[c].pc = "writing" /\ calls[c].done = 0}

\* what a call that ended hands to its caller
Returned(call, run, failAt) ==
    LET issue == call.request
        outcome == IF run.raised THEN Except(Exception("StorageError"))
                   ELSE [status_code |-> OkStatus, caught |-> NoException]
        response == IF run.raised THEN NoResponse
                    ELSE create_issue_response(issue, call.issue_id, call.created_at, call.created_at)
    IN [Report("create_issue", issue.project_id, call.issue_id, issue, failAt,
               NoState, NoState, call.writes, run,
               outcome.status_code, outcome.caught, response)
        EXCEPT !.before = call.before, !.now = call.created_at]

\* lines 176-219: the id and the time of the new issue are drawn, the statements prepared
create_issue_begin(c, issue) ==
    /\ calls[c].pc = "idle"
    /\ clock < MaxClock
    /\ Cardinality(db.issues_by_project) + Cardinality(Starting) < MaxIssues
    /\ LET issue_id == uuids + 1
           created_at == clock
           updated_at == created_at
       IN calls' = [calls EXCEPT ![c] =
                       [Idle EXCEPT !.pc = "writing", !.request = issue, !.issue_id = issue_id,
                                    !.created_at = created_at, !.before = db,
                                    !.writes = create_issue_writes(issue, issue_id, created_at,
                                                                   updated_at)]]
    /\ clock' = clock + 1
    /\ uuids' = uuids + 1
    /\ UNCHANGED <<db, last, stored, clean>>

\* lines 221-249: one db.execute of the call; after the last one the handler returns
create_issue_execute(c) ==
    /\ calls[c].pc = "writing"
    /\ LET call == calls[c]
           i == call.done + 1
           w == call.writes[i]
           run == [db |-> Execute(db, w), done |-> i, raised |-> FALSE]
           report == Returned(call, run, 0)
       IN /\ ~Rejected(w)
          /\ db' = run.db
          /\ IF i < Len(call.writes)
             THEN /\ calls' = [calls EXCEPT ![c] = [call EXCEPT !.done = i]]
                  /\ UNCHANGED <<last, stored, clean>>
             ELSE /\ calls' = [calls EXCEPT ![c] =
                                  [call EXCEPT !.pc = "done", !.done = i,
                                               !.status_code = report.status_code,
                                               !.caught = report.caught]]
                  /\ last' = report
                  /\ stored' = (call.issue_id :> report.response) @@ stored
                  /\ clean' = clean
    /\ UNCHANGED <<clock, uuids>>

\* lines 264-265: a db.execute of the call raises, which ends the call
create_issue_raise(c) ==
    /\ calls[c].pc = "writing"
    /\ LET call == calls[c]
           run == [db |-> db, done |-> call.done, raised |-> TRUE]
           report == Returned(call, run, call.done + 1)
       IN /\ calls' = [calls EXCEPT ![c] = [call EXCEPT !.pc = "done",
                                                        !.status_code = report.status_code,
                                                        !.caught = report.caught]]
          /\ last' = report
    /\ clean' = FALSE
    /\ UNCHANGED <<db, clock, uuids, stored>>

(***************************************************************************)
(* Requests.                                                               *)
(***************************************************************************)
Projects == {"p1", "p2"}
Reporter == PyUUID("r1")

NewIssue(priority, assignee_id, component) ==
    [project_id |-> "p1", title |-> PyStr("t1"), description |-> PyStr("d1"),
     status |-> Status("open"), priority |-> priority, assignee_id |-> assignee_id,
     reporter_id |-> Reporter, component |-> component]

\* bodies of POST /issues/ that IssueCreate accepts
IssueCreate ==
    {NewIssue(Priority("medium"), a, c) : <<a, c>> \in {None, PyUUID("u1")} \X {None, PyStr("c1")}}
    \cup {NewIssue(Priority("high"), None, PyStr(""))}

EmptyBody == [f \in Fields |-> Unset]

\* a body of PUT /issues/{issue_id} that mentions the fields of said: a value that
\* IssueUpdate accepts, or null
Body(said) == [f \in Fields |-> IF f \in DOMAIN said THEN said[f] ELSE Unset]

OneField ==
    {Body("title" :> x) : x \in {None, PyStr("t2")}}
    \cup {Body("description" :> PyStr("d2"))}
    \cup {Body("status" :> x) : x \in {None, Status("open"), Status("in_progress")}}
    \cup {Body("priority" :> x) : x \in {Priority("medium"), Priority("low")}}
    \cup {Body("assignee_id" :> x) : x \in {None, PyUUID("u1"), PyUUID("u2")}}
    \cup {Body("component" :> x) : x \in {None, PyStr(""), PyStr("c1"), PyStr("c2")}}

TwoFields ==
    {Body(("status" :> Status("closed")) @@ ("assignee_id" :> PyUUID("u2"))),
     Body(("title" :> PyStr("t2")) @@ ("component" :> PyStr("c2"))),
     Body(("status" :> Status("in_progress")) @@ ("priority" :> Priority("low")))}

IssueUpdate == {EmptyBody} \cup OneField \cup TwoFields

\* what a request may address: under either project, every issue_id handed out so far and
\* one that never was
Addresses == Projects \X ({r.issue_id : r \in db.issues_by_project} \cup {0})

(***************************************************************************)
(* database.py, CassandraManager, and main.py, get_db.  The driver's       *)
(* objects: a Cluster is open until shutdown() is called on it, and its    *)
(* Session executes statements for as long as the cluster is open.         *)
(***************************************************************************)
Cluster(state) == [t |-> "Cluster", v |-> state]
Session(state) == [t |-> "Session", v |-> state]

\* CassandraManager.__init__
CassandraManager == [cluster |-> None, session |-> None, is_connected |-> FALSE]

\* the calls of the try block of connect() that may raise, in the order of the code: both
\* attempts at Cluster(...), cluster.connect(), the check of its result (a session that is
\* None), CREATE KEYSPACE, set_keyspace, create_tables
ConnectSteps ==
    <<"Cluster", "cluster.connect", "session is None", "CREATE KEYSPACE", "set_keyspace",
      "create_tables">>

Raising == {ConnectSteps[i] : i \in DOMAIN ConnectSteps}

\* lines 20-30: int(port), of the argument or of CASSANDRA_PORT, raises ValueError before
\* the try block is entered
BeforeTry == {"int(port)"}

\* what a call of connect() may meet: no error, one before the try block, one that the code
\* absorbs (Cluster(...) with protocol_version=4 raises and the second attempt succeeds;
\* create_indexes logs the error of an index and goes on), or one of the steps raising
Absorbed == {"protocol_version", "create_indexes"}
ConnectOutcomes == {""} \cup BeforeTry \cup Absorbed \cup Raising

StepOf(failure) == CHOOSE i \in DOMAIN ConnectSteps : ConnectSteps[i] = failure

\* the assignments of the try block of connect(), up to the step that raises
connect_try(self, failure) ==
    LET reached == IF failure \in Raising THEN StepOf(failure) ELSE Len(ConnectSteps) + 1
        created == IF reached > 1 THEN [self EXCEPT !.cluster = Cluster("open")] ELSE self
        connected == IF reached > 3 THEN [created EXCEPT !.session = Session("open")]
                     ELSE IF reached = 3 THEN [created EXCEPT !.session = None]
                     ELSE created
    IN IF reached > Len(ConnectSteps) THEN [connected EXCEPT !.is_connected = TRUE]
       ELSE connected

\* connect() with a fault: the except clause clears the flag and keeps the handles
connect_keeping_handles(self, failure) ==
    IF failure \in BeforeTry
    THEN [self |-> self, raised |-> Exception("ValueError")]
    ELSE IF failure \in Raising
    THEN [self |-> [connect_try(self, failure) EXCEPT !.is_connected = FALSE],
          raised |-> Exception(failure)]
    ELSE [self |-> connect_try(self, failure), raised |-> NoException]

\* CassandraManager.connect: the manager after the call and the exception that leaves it
connect(self, failure) ==
    IF failure \in BeforeTry
    THEN \* no attribute is assigned and no except clause is in reach
         [self |-> self, raised |-> Exception("ValueError")]
    ELSE IF failure \in Raising
    THEN [self |-> [connect_try(self, failure) EXCEPT !.is_connected = FALSE,
                                                      !.session = None,
                                                      !.cluster = None],
          raised |-> Exception(failure)]
    ELSE [self |-> connect_try(self, failure), raised |-> NoException]

\* CassandraManager.close: cluster.shutdown() ends the cluster and the sessions made from it;
\* no attribute of the manager is assigned
close(self) ==
    IF Truthy(self.cluster)
    THEN [self EXCEPT !.cluster = Cluster("shutdown"),
                      !.session = IF self.session = None THEN None ELSE Session("shutdown")]
    ELSE self

\* the status code of the HTTPException that get_db raises
UnavailableStatus == 503

\* get_db with a fault: the session is handed out whatever the manager's state
get_db_unchecked(self) == [session |-> self.session, raised |-> NoException]

\* main.py, get_db: the session, or the HTTPException raised instead
get_db(self) ==
    IF ~self.is_connected \/ self.session = None
    THEN [session |-> None, raised |-> HTTPException(UnavailableStatus)]
    ELSE [session |-> self.session, raised |-> NoException]

\* a statement executed on the session reaches the storage if the session is one of an open
\* cluster; on None it is an AttributeError, on a session that was shut down a driver error
Usable(session) == session = Session("open")

(***************************************************************************)
(* The system: requests served one at a time, the storage never failing    *)
(* by itself.                                                              *)
(***************************************************************************)
NoReport ==
    [op |-> "", project_id |-> "", issue_id |-> 0, request |-> EmptyBody, failAt |-> 0,
     before |-> [t \in Tables |-> {}], now |-> 0, old |-> NoState, new |-> NoState, writes |-> <<>>,
     done |-> 0, raised |-> FALSE, status_code |-> 0, caught |-> NoException, response |-> NoResponse]

Init ==
    /\ db = [t \in Tables |-> {}]
    /\ clock = 0
    /\ uuids = 0
    /\ last = NoReport
    /\ stored = [i \in {} |-> NoResponse]
    /\ clean = TRUE
    /\ calls = [c \in Callers |-> Idle]
    \* the handlers are served by a process whose start-up has connected the manager
    /\ manager = connect(CassandraManager, "").self
    /\ server = [launch |-> "uvicorn main:app", phase |-> "serving"]

Create == (\E issue \in IssueCreate : create_issue(issue, 0)) /\ UNCHANGED <<calls, manager, server>>

Update == /\ \E target \in Addresses : \E issue_update \in IssueUpdate :
                update_issue_first(target[1], target[2], issue_update, FALSE, 0)
          /\ UNCHANGED <<calls, manager, server>>

Next == Create \/ Update

Spec == Init /\ [][Next]_vars

(***************************************************************************)
(* Vocabulary of the properties.                                           *)
(***************************************************************************)
\* the five tables that hold a row per issue
IssueTables == Views \cup {"issues_by_project"}

\* the mutable fields in the primary key of a table
KeyFields(table) == PrimaryKey(table) \cap Fields

\* the inclusion predicate of a table on an issue state
Included(table, issue) ==
    CASE table = "issues_by_assignee" -> Truthy(issue.assignee_id)
      [] table = "issues_by_component" -> Truthy(issue.component)
      [] OTHER -> TRUE

\* the row of a table that an issue state projects to
Projection(table, issue) == [c \in Columns(table) |-> BindRow(issue)[c]]

RowsOf(d, table, project_id, issue_id) ==
    {r \in d[table] : r.project_id = project_id /\ r.issue_id = issue_id}

\* the rows of an issue in a table whose mutable key fields have the values of a state
RowsKeyed(d, table, project_id, issue_id, state) ==
    {r \in RowsOf(d, table, project_id, issue_id) :
        \A k \in KeyFields(table) : r[k] = Bound(state[k])}

KeyChanged(table, old, new) == \E k \in KeyFields(table) : ~PyEq(old[k], new[k])

CreateSucceeded == last.op = "create_issue" /\ last.status_code = OkStatus

UpdateSucceeded == last.op = "update_issue" /\ last.status_code = OkStatus

\* the call was an update addressed to an issue that had a canonical row
OfExisting(call) ==
    /\ call.op = "update_issue"
    /\ SelectIssue(call.before, call.project_id, call.issue_id) # {}

UpdateOfExisting == OfExisting(last)

\* the last call was an update addressed to an issue that had no canonical row
UpdateOfMissing ==
    /\ last.op = "update_issue"
    /\ SelectIssue(last.before, last.project_id, last.issue_id) = {}

\* the call was an update of an existing issue with a non-empty payload, and the storage
\* failed no statement of it
IsServed(call) ==
    /\ OfExisting(call)
    /\ call.request # EmptyBody
    /\ call.failAt = 0
    /\ call.caught # Exception("StorageError")

Served == IsServed(last)

\* the values the issue had before a call: those of its canonical row and the component
\* under which issues_by_component held it
ValuesBeforeOf(call) ==
    LET current_issue == CHOOSE r \in SelectIssue(call.before, call.project_id, call.issue_id) : TRUE
        components == SelectComponent(call.before, call.project_id, call.issue_id)
    IN OldState(current_issue, CHOOSE c \in components : TRUE)

ValuesBefore == ValuesBeforeOf(last)

\* the merged state that the payload of a call asks for: the supplied value for every field
\* of the payload, the value before the call for every other field
AskedOf(call) ==
    [f \in Fields |-> IF In(f, call.request) THEN call.request[f] ELSE ValuesBeforeOf(call)[f]]

Asked == AskedOf(last)

\* the issue of the last update with the mutable fields of state
IssueAs(state) ==
    LET current_issue == CHOOSE r \in SelectIssue(last.before, last.project_id, last.issue_id) : TRUE
    IN [project_id |-> last.project_id, issue_id |-> last.issue_id,
        created_at |-> current_issue.created_at] @@ state

\* C1: after creates and updates served one at a time, no statement of which the storage
\* failed, every issue has in each of the five tables exactly the row that its current
\* values project to if the table's predicate holds of them, and no row otherwise (so no
\* row keyed by other values)
ViewsConsistent ==
    clean =>
        \A issue_id \in DOMAIN stored : \A table \in IssueTables :
            RowsOf(db, table, stored[issue_id].project_id, issue_id)
                = IF Included(table, stored[issue_id])
                  THEN {Projection(table, stored[issue_id])} ELSE {}

\* C1 witness: two issues, one with an assignee and a component and one without either,
\* after an update of one of them was served
ViewsConsistentWitness ==
    /\ clean
    /\ Served
    /\ \E i, j \in DOMAIN stored :
          /\ Included("issues_by_assignee", stored[i]) /\ Included("issues_by_component", stored[i])
          /\ ~Included("issues_by_assignee", stored[j]) /\ ~Included("issues_by_component", stored[j])

\* C2: an update that no storage failure met and that asks for a change of a key field of
\* a view in which the issue is included before and after leaves no row of the issue under
\* the old key values and exactly one under the new ones
KeyChangeMovesRow ==
    Served =>
        \A table \in Views :
            (/\ Included(table, ValuesBefore)
             /\ Included(table, Asked)
             /\ KeyChanged(table, ValuesBefore, Asked))
            => /\ RowsKeyed(db, table, last.project_id, last.issue_id, ValuesBefore) = {}
               /\ Cardinality(RowsKeyed(db, table, last.project_id, last.issue_id, Asked)) = 1

\* the issue state that a request to create describes
Created ==
    [issue_id |-> last.issue_id, project_id |-> last.request.project_id,
     title |-> last.request.title, description |-> last.request.description,
     status |-> last.request.status, priority |-> last.request.priority,
     assignee_id |-> last.request.assignee_id, reporter_id |-> last.request.reporter_id,
     component |-> last.request.component, created_at |-> last.now, updated_at |-> last.now]

\* C3: after a create, the new issue has exactly one row in issues_by_project,
\* issues_by_status and issues_by_priority, one in issues_by_assignee iff an assignee was
\* given, one in issues_by_component iff a non-empty component was given, each carrying
\* the values of the request
CreateWritesViews ==
    CreateSucceeded =>
        \A table \in IssueTables :
            RowsOf(db, table, last.project_id, last.issue_id)
                = IF \/ table \in {"issues_by_project", "issues_by_status", "issues_by_priority"}
                     \/ table = "issues_by_assignee" /\ last.request.assignee_id # None
                     \/ table = "issues_by_component"
                        /\ last.request.component \notin {None, PyStr("")}
                  THEN {Projection(table, Created)} ELSE {}

\* C3 witness: a create without assignee and without component
CreateWritesViewsWitness ==
    /\ CreateSucceeded
    /\ last.request.assignee_id = None
    /\ last.request.component = None
    /\ Cardinality(db.issues_by_project) = 2

\* the mutable fields in the partition key of a view
PartitionFields(table) ==
    CASE table = "issues_by_status" -> {"status"}
      [] table = "issues_by_priority" -> {"priority"}
      [] table = "issues_by_assignee" -> {"assignee_id"}
      [] table = "issues_by_component" -> {"component"}

\* the partition of a view in which an issue state lies
PartitionOf(d, table, project_id, state) ==
    {r \in d[table] :
        r.project_id = project_id /\ \A k \in PartitionFields(table) : r[k] = Bound(state[k])}

\* C4: after requests none of which failed a write, an update that asks for no change of a
\* key field of a view in which the issue lies keeps the number of rows of the issue's
\* partition and leaves the issue's single row carrying the new values
NonKeyUpdateInPlace ==
    (clean /\ Served) =>
        \A table \in Views :
            (/\ Included(table, ValuesBefore)
             /\ Included(table, Asked)
             /\ ~KeyChanged(table, ValuesBefore, Asked))
            => /\ Cardinality(PartitionOf(db, table, last.project_id, Asked))
                    = Cardinality(PartitionOf(last.before, table, last.project_id, ValuesBefore))
               /\ RowsOf(db, table, last.project_id, last.issue_id)
                    = {Projection(table, IssueAs(Asked))}

\* a value as the history renders it: absent (None or empty) or its text
Rendered(x) == IF Truthy(x) THEN PyStr(x.v) ELSE None

HistoryAdded == db.issue_history \ last.before.issue_history

\* C6: an update of an existing issue with a non-empty payload, no statement of which the
\* storage fails, succeeds and returns the merged state: the supplied value (null included)
\* for every field of the payload, the value before the update for every other field
UpdateReturnsMerged ==
    Served =>
        /\ last.status_code = OkStatus
        /\ \A f \in Fields : PyEq(last.response[f], Asked[f])

\* C7: an update of an existing issue with an empty payload fails with the status of
\* "no fields to update" and leaves every table as it was
EmptyBodyIsNoOp ==
    (UpdateOfExisting /\ last.request = EmptyBody) =>
        /\ last.status_code = NoFieldsStatus
        /\ db = last.before

\* C8: an update addressed to an issue without a canonical row fails with the status of
\* "issue not found" and leaves every table as it was, whatever the payload
MissingIssueIsNotFound ==
    UpdateOfMissing =>
        /\ last.status_code = NotFoundStatus
        /\ db = last.before

\* C9: the status reported for "issue not found" and for "no fields to update" is never
\* the status reported for a failure of the storage, and the two differ from each other
ErrorsDistinguishable ==
    LET StorageErrorStatus == Except(Exception("StorageError")).status_code
    IN /\ UpdateOfMissing => last.status_code # StorageErrorStatus
       /\ (UpdateOfExisting /\ last.request = EmptyBody) => last.status_code # StorageErrorStatus

(***************************************************************************)
(* A storage that may fail any one statement of a request.                 *)
(***************************************************************************)
FewIssues == {NewIssue(Priority("medium"), None, None),
              NewIssue(Priority("medium"), PyUUID("u1"), PyStr("c1"))}

\* a create sends at most the canonical INSERT and one INSERT per view
FailPoints == 0..(1 + Cardinality(Views))

FailingBodies == {EmptyBody, Body(("status" :> Status("in_progress")) @@ ("component" :> PyStr("c2")))}

CreateFailing == /\ \E issue \in FewIssues : \E failAt \in FailPoints : create_issue(issue, failAt)
                 /\ UNCHANGED <<calls, manager, server>>

UpdateFailing == /\ \E target \in Addresses : \E issue_update \in FailingBodies :
                    \E select_raises \in BOOLEAN : \E failAt \in FailPoints :
                       update_issue_first(target[1], target[2], issue_update, select_raises, failAt)
                 /\ UNCHANGED <<calls, manager, server>>

NextFailing == CreateFailing \/ UpdateFailing

SpecFailing == Init /\ [][NextFailing]_vars

\* the tables after the first n of a sequence of writes
RECURSIVE ApplyFirst(_, _, _)
ApplyFirst(d, ws, n) == IF n = 0 THEN d ELSE Execute(ApplyFirst(d, ws, n - 1), ws[n])

\* C10: when the k-th write of a create or an update fails, the caller gets an error and
\* no response, no write after the k-th is issued, and the tables are those that the
\* writes 1..k-1 left
WriteFailureAborts ==
    last.failAt > 0 =>
        /\ last.raised
        /\ last.status_code = Except(Exception("StorageError")).status_code
        /\ last.status_code # OkStatus
        /\ last.response = NoResponse
        /\ last.done = last.failAt - 1
        /\ db = ApplyFirst(last.before, last.writes, last.failAt - 1)

\* C10 witness: the INSERT into issues_by_priority of a create failed after the canonical
\* row and the rows of issues_by_status and issues_by_assignee were written
WriteFailureAbortsWitness ==
    /\ last.op = "create_issue"
    /\ last.failAt = 4
    /\ last.writes[last.failAt].table = "issues_by_priority"
    /\ Len(last.writes) = 5
    /\ RowsOf(db, "issues_by_assignee", last.project_id, last.issue_id) # {}
    /\ RowsOf(db, "issues_by_priority", last.project_id, last.issue_id) = {}

(***************************************************************************)
(* Creates that overlap, on a storage that may fail any write, next to     *)
(* updates.  An update is one round trip (its SELECT), so it is a step of   *)
(* its own between the statements of the creates in flight.                 *)
(***************************************************************************)
OverlappingBodies == {Body("status" :> Status("in_progress")),
                      Body(("status" :> Status("closed")) @@ ("title" :> PyStr("t2")))}

Begin == /\ \E c \in Callers : \E issue \in FewIssues : create_issue_begin(c, issue)
         /\ UNCHANGED <<manager, server>>

Write1 == (\E c \in Callers : create_issue_execute(c)) /\ UNCHANGED <<manager, server>>

Raise == (\E c \in Callers : create_issue_raise(c)) /\ UNCHANGED <<manager, server>>

UpdateBetween == /\ \E target \in Addresses : \E issue_update \in OverlappingBodies :
                       update_issue_first(target[1], target[2], issue_update, FALSE, 0)
                 /\ UNCHANGED <<calls, manager, server>>

NextConcurrent == Begin \/ Write1 \/ Raise \/ UpdateBetween

SpecConcurrent == Init /\ [][NextConcurrent]_vars

(***************************************************************************)
(* What no request changes.                                                *)
(***************************************************************************)
\* the canonical rows of an issue
CanonicalRows(d, issue_id) == {r \in d.issues_by_project : r.issue_id = issue_id}

\* C12: in every step of overlapping creates, comments and updates, failed ones included,
\* a canonical row of an issue that existed keeps the issue's reporter_id and created_at,
\* the canonical row of a new issue has the reporter of the request that creates it and the
\* time at which that request was taken up, and every view row of an issue has the
\* created_at of its canonical row
CreationFieldsKept ==
    [][/\ \A r \in db'.issues_by_project :
            IF CanonicalRows(db, r.issue_id) # {}
            THEN \A q \in CanonicalRows(db, r.issue_id) :
                    r.created_at = q.created_at /\ r.reporter_id = q.reporter_id
            ELSE \E c \in Callers :
                    /\ calls[c].pc = "writing"
                    /\ calls[c].issue_id = r.issue_id
                    /\ r.created_at = calls[c].created_at
                    /\ r.reporter_id = calls[c].request.reporter_id
       /\ \A table \in Views : \A v \in db'[table] :
            /\ CanonicalRows(db', v.issue_id) # {}
            /\ \A r \in CanonicalRows(db', v.issue_id) : v.created_at = r.created_at]_vars

\* C12 witness: two creates overlapped, one of them failed after its canonical write, and
\* an update of the issue it left was served afterwards
CreationFieldsKeptWitness ==
    /\ \A c \in Callers : calls[c].pc = "done" /\ calls[c].done > 0
    /\ \E c, d \in Callers :
          /\ calls[c].caught = Exception("StorageError")
          /\ calls[d].created_at > calls[c].created_at
          /\ calls[d].before.issues_by_project = {}
          /\ last.issue_id = calls[c].issue_id
    /\ Served

(***************************************************************************)
(* The views as functions of the canonical table.                          *)
(***************************************************************************)
\* what a canonical row says about a column: its value, or nothing where issues_by_project
\* has no such column
CanonicalValue(r, column) == IF column \in DOMAIN r THEN r[column] ELSE None

\* the rows of a view as a scan of the canonical table yields them
Rebuilt(d, table) ==
    LET issue(r) == [column \in Columns(table) |-> CanonicalValue(r, column)]
    IN {issue(r) : r \in {q \in d.issues_by_project : Included(table, issue(q))}}

\* C13: after requests none of which failed, every view holds exactly the rows that a scan
\* of the canonical table yields, field by field
ViewsFromCanonical ==
    clean => \A table \in Views : db[table] = Rebuilt(db, table)

(***************************************************************************)
(* Two updates of one issue.                                               *)
(***************************************************************************)
\* the fields that the canonical UPDATE sets
CanonicalFields == Fields \cap Columns("issues_by_project")

\* the step serves an update of the issue that the update before it addressed, and the
\* storage failed no statement of either
SecondOfTwo ==
    /\ Served
    /\ IsServed(last')
    /\ last' # last
    /\ last'.project_id = last.project_id
    /\ last'.issue_id = last.issue_id

\* C14: once two updates of the same issue have both ended, the mutable fields of the
\* canonical row are those of the merged state of one of the two, the one whose canonical
\* write was executed last, and neither was told of a conflict
LastCanonicalWriteWins ==
    [][SecondOfTwo =>
          \E winner \in {last, last'} :
             \A r \in CanonicalRows(db', winner.issue_id) :
                \A f \in CanonicalFields : r[f] = Bound(AskedOf(winner)[f])]_vars

(***************************************************************************)
(* The order of the writes of one request.                                 *)
(***************************************************************************)
\* the place of a table in the order in which an update writes
Rank(table) ==
    CASE table = "issues_by_project" -> 1
      [] table = "issues_by_status" -> 2
      [] table = "issues_by_priority" -> 3
      [] table = "issues_by_assignee" -> 4
      [] table = "issues_by_component" -> 5
      [] table = "issue_history" -> 6

\* the writes are in the order of an update: the canonical row first and once, then
\* issues_by_status, issues_by_priority, issues_by_assignee, issues_by_component, then the
\* history rows
InUpdateOrder(writes) ==
    /\ \A j \in 1..Len(writes) : (writes[j].table = "issues_by_project") <=> (j = 1)
    /\ \A i, j \in 1..Len(writes) : i < j => Rank(writes[i].table) <= Rank(writes[j].table)

\* what the second definition of update_issue would do with the request of the last call on
\* the tables on which the call was served
SecondDefinition ==
    update_issue(last.before, last.now, uuids, last.project_id, last.issue_id, last.request)

\* C15: the writes of one request are issued one after another.  A create issues the
\* canonical INSERT first and the view INSERTs after it, and a create that a storage
\* failure ended has left in the tables exactly what the writes before the failing one
\* wrote.  The writes of an update, those the served definition issued and those the
\* handler text of lines 831-999 issues for the same request, are in the order canonical
\* row, issues_by_status, issues_by_priority, issues_by_assignee, issues_by_component,
\* history rows.
WritesInOrder ==
    /\ last.op = "create_issue" =>
          /\ last.writes # <<>>
          /\ \A j \in 1..Len(last.writes) : (last.writes[j].table = "issues_by_project") <=> (j = 1)
          /\ db = ApplyFirst(last.before, last.writes, last.done)
    /\ last.op = "update_issue" =>
          /\ InUpdateOrder(last.writes)
          /\ db = ApplyFirst(last.before, last.writes, last.done)
          /\ \A second \in SecondDefinition : InUpdateOrder(second.writes)

\* C15 witness: the storage failed the second write of a create of five: the canonical row
\* is stored, and no view holds the issue
WritesInOrderWitness ==
    /\ last.op = "create_issue"
    /\ Len(last.writes) = 5
    /\ last.failAt = 2
    /\ last.done = 1
    /\ \E r \in db.issues_by_project : r.issue_id = last.issue_id
    /\ \A table \in Views : \A r \in db[table] : r.issue_id # last.issue_id

\* a second state in which the claim's case happens: an update was served for which the
\* handler text of lines 831-999 writes the canonical row, every view and the history
UpdateWritesInOrderReached ==
    /\ last.op = "update_issue"
    /\ \E second \in SecondDefinition :
          {second.writes[j].table : j \in 1..Len(second.writes)} = IssueTables \cup {"issue_history"}

(***************************************************************************)
(* The statements that an update sends to a view.                          *)
(***************************************************************************)
\* the writes of the last call to a table, in the order issued
WritesTo(table) == SelectSeq(last.writes, LAMBDA w : w.table = table)

\* the operations of the writes of the last call to a table, in the order issued
OpsTo(table) == [j \in 1..Len(WritesTo(table)) |-> WritesTo(table)[j].op]

\* the two states agree on every field that the view holds
SameInView(table, old, new) ==
    \A f \in Fields \cap Columns(table) : Bound(old[f]) = Bound(new[f])

\* C17: an update whose merged state equals the state it read in every field that a view
\* holds sends no DELETE, INSERT or UPDATE to that view: neither the served definition nor
\* the synchronising code of lines 846-979 run on the same request
UnchangedViewNotWritten ==
    (UpdateOfExisting /\ last.request # EmptyBody) =>
        \A table \in Views :
            SameInView(table, ValuesBefore, Asked) =>
               /\ WritesTo(table) = <<>>
               /\ \A second \in SecondDefinition :
                     \A j \in 1..Len(second.writes) : second.writes[j].table # table

\* the primary key of the row that a table holds for an issue
KeyOf(table, issue) == [column \in PrimaryKey(table) |-> Projection(table, issue)[column]]

\* the issue is in the view before and after the last update, under the same key
KeyKept(table) ==
    /\ Included(table, ValuesBefore)
    /\ Included(table, Asked)
    /\ ~KeyChanged(table, ValuesBefore, Asked)

\* C18: when the issue is in a view before and after an update and the key fields of the
\* view have the same values, the update sends the view one UPDATE under that key and
\* nothing else, also when the payload names a key field with its current value
SameKeyUpdatesInPlace ==
    Served =>
        \A table \in Views :
            KeyKept(table) =>
                /\ OpsTo(table) = <<"UPDATE">>
                /\ BindRow(WritesTo(table)[1].key) = KeyOf(table, IssueAs(ValuesBefore))

\* the issue is in the view before and after the last update, under different keys
KeyMoved(table) ==
    /\ Included(table, ValuesBefore)
    /\ Included(table, Asked)
    /\ KeyChanged(table, ValuesBefore, Asked)

\* C19: when the issue is in a view before and after an update and a key field of the view
\* differs, the update sends the view a DELETE under the old key and then an INSERT of the
\* row of the new state
ChangedKeyDeletesThenInserts ==
    Served =>
        \A table \in Views :
            KeyMoved(table) =>
                /\ OpsTo(table) = <<"DELETE", "INSERT">>
                /\ BindRow(WritesTo(table)[1].key) = KeyOf(table, IssueAs(ValuesBefore))
                /\ BindRow(WritesTo(table)[2].key) @@ BindRow(WritesTo(table)[2].set)
                     = Projection(table, IssueAs(Asked))

\* the views that hold an issue only if a field of it is present
PredicateViews == {"issues_by_assignee", "issues_by_component"}

\* C20: for issues_by_assignee and issues_by_component, an update that takes the field
\* from absent to present sends the view one INSERT of the row of the new state and nothing
\* else, one that takes it from present to absent sends one DELETE under the old key and
\* nothing else, and one that leaves it absent sends the view nothing
PredicateViewsFollowPresence ==
    Served =>
        \A table \in PredicateViews :
            /\ (~Included(table, ValuesBefore) /\ Included(table, Asked)) =>
                  /\ OpsTo(table) = <<"INSERT">>
                  /\ BindRow(WritesTo(table)[1].key) @@ BindRow(WritesTo(table)[1].set)
                       = Projection(table, IssueAs(Asked))
            /\ (Included(table, ValuesBefore) /\ ~Included(table, Asked)) =>
                  /\ OpsTo(table) = <<"DELETE">>
                  /\ BindRow(WritesTo(table)[1].key) = KeyOf(table, IssueAs(ValuesBefore))
            /\ (~Included(table, ValuesBefore) /\ ~Included(table, Asked)) =>
                  OpsTo(table) = <<>>

(***************************************************************************)
(* Requests that set the status, on issues created under any status.       *)
(***************************************************************************)
\* the members of Status
AnyStatus == {Status(s) : s \in StatusValues}

StatusIssues ==
    {[NewIssue(Priority("medium"), assignee_id, None) EXCEPT !.status = status] :
        <<status, assignee_id>> \in AnyStatus \X {None, PyUUID("u1")}}

StatusBodies == {Body("status" :> status) : status \in AnyStatus}

CreateWithStatus == (\E issue \in StatusIssues : create_issue(issue, 0)) /\ UNCHANGED <<calls, manager, server>>

UpdateStatus == /\ \E target \in Addresses : \E issue_update \in StatusBodies :
                      update_issue_first(target[1], target[2], issue_update, FALSE, 0)
                /\ UNCHANGED <<calls, manager, server>>

NextStatus == CreateWithStatus \/ UpdateStatus

SpecStatus == Init /\ [][NextStatus]_vars

\* C21: an update of an existing issue that supplies a status and nothing else succeeds
\* whatever the status of the issue and whatever the one supplied, and leaves the issue
\* with the supplied status: in the response, in the canonical row and as the key of its
\* only row in issues_by_status
StatusMachineNotEnforced ==
    [][(last' # last /\ IsServed(last') /\ last'.request \in StatusBodies) =>
          /\ last'.status_code = OkStatus
          /\ last'.response.status = last'.request.status
          /\ \A r \in RowsOf(db', "issues_by_project", last'.project_id, last'.issue_id) :
                r.status = value(last'.request.status)
          /\ \E r \in db'.issues_by_status :
                /\ r.status = value(last'.request.status)
                /\ RowsOf(db', "issues_by_status", last'.project_id, last'.issue_id) = {r}]_vars

(***************************************************************************)
(* The scenarios of the design.                                            *)
(***************************************************************************)
\* the fields that the body of the last request supplies
Supplied == {f \in Fields : In(f, last.request)}

\* C22: after requests none of which failed a write, an update whose body supplies an
\* assignee and nothing else, on an issue without assignee, removes no row of
\* issues_by_assignee and adds exactly one, the issue's, under the project and the supplied
\* assignee, and adds exactly one history row: field_changed "assignee_id", no old_value,
\* new_value the str of the assignee
AssignFromNone ==
    (/\ clean
     /\ Served
     /\ Supplied = {"assignee_id"}
     /\ last.request.assignee_id.t = "UUID"
     /\ ValuesBefore.assignee_id = None)
    => /\ last.before.issues_by_assignee \subseteq db.issues_by_assignee
       /\ \E r \in db.issues_by_assignee :
             /\ db.issues_by_assignee \ last.before.issues_by_assignee = {r}
             /\ r.project_id = last.project_id
             /\ r.assignee_id = last.request.assignee_id
             /\ r.issue_id = last.issue_id
       /\ \E h \in db.issue_history :
             /\ HistoryAdded = {h}
             /\ h.project_id = last.project_id
             /\ h.issue_id = last.issue_id
             /\ h.field_changed = "assignee_id"
             /\ h.old_value = None
             /\ h.new_value = str(last.request.assignee_id)

\* C23: after requests none of which failed a write, an update whose body supplies only
\* the status "in_progress", on an issue that is "open", leaves the issue no row in the
\* partition (project, "open") of issues_by_status, where it had one, and one row in the
\* partition (project, "in_progress"), with the same issue_id and created_at, and adds
\* exactly one history row: field_changed "status", old_value "open", new_value
\* "in_progress"
StatusOpenToInProgress ==
    (/\ clean
     /\ Served
     /\ Supplied = {"status"}
     /\ ValuesBefore.status = PyStr("open")
     /\ last.request.status = Status("in_progress"))
    => /\ \E q \in RowsKeyed(last.before, "issues_by_status", last.project_id, last.issue_id,
                             ValuesBefore) :
             /\ RowsKeyed(db, "issues_by_status", last.project_id, last.issue_id, ValuesBefore) = {}
             /\ \E r \in db.issues_by_status :
                   /\ RowsOf(db, "issues_by_status", last.project_id, last.issue_id) = {r}
                   /\ r.status = PyStr("in_progress")
                   /\ r.created_at = q.created_at
       /\ \E h \in db.issue_history :
             /\ HistoryAdded = {h}
             /\ h.field_changed = "status"
             /\ h.old_value = PyStr("open")
             /\ h.new_value = PyStr("in_progress")

(***************************************************************************)
(* The history rows of one update.                                         *)
(***************************************************************************)
\* the tracked fields whose value the payload of the last update asks to change
AskedToChange == {f \in Fields : Rendered(ValuesBefore[f]) # Rendered(Asked[f])}

\* C24: the history rows that an update added all carry as changed_at the updated_at of the
\* canonical row and as changed_by the reporter_id of the issue; their event_ids differ
\* from one another and from every event_id the history held before; field_changed is one
\* of the six fields of IssueUpdate; and an update that changes n tracked fields adds n
\* rows, one for each of the fields
HistoryRowsOfOneUpdate ==
    Served =>
        /\ \A h \in HistoryAdded :
              /\ h.project_id = last.project_id
              /\ h.issue_id = last.issue_id
              /\ \A r \in CanonicalRows(db, last.issue_id) :
                    h.changed_at = r.updated_at /\ h.changed_by = r.reporter_id
              /\ h.event_id \notin {e.event_id : e \in last.before.issue_history}
              /\ h.field_changed \in Fields
              /\ h.field_changed \notin {"created_at", "reporter_id", "updated_at"}
        /\ \A h, e \in HistoryAdded : h # e => h.event_id # e.event_id
        /\ {h.field_changed : h \in HistoryAdded} = AskedToChange
        /\ Cardinality(HistoryAdded) = Cardinality(AskedToChange)

(***************************************************************************)
(* The keys of the canonical table.                                        *)
(***************************************************************************)
\* the primary keys of the rows of issues_by_project
CanonicalKeys(d) ==
    {[column \in PrimaryKey("issues_by_project") |-> r[column]] : r \in d.issues_by_project}

\* C25: no step that serves an update, one that ends in an error and one served between
\* the statements of other requests included, adds a canonical row, removes one or changes
\* the key of one
CanonicalKeysKept ==
    [][(last' # last /\ last'.op = "update_issue") => CanonicalKeys(db') = CanonicalKeys(db)]_vars

\* C25 witness: an update of an existing issue was served while a create was in flight,
\* and it ended in an error
CanonicalKeysKeptWitness ==
    /\ Served
    /\ last.status_code = ErrorStatus
    /\ \E c \in Callers : calls[c].pc = "writing" /\ calls[c].done > 0
    /\ CanonicalKeys(db) # {}

(***************************************************************************)
(* What a create writes.                                                   *)
(***************************************************************************)
\* C26: a create leaves issue_history as it was, whatever the fields of the new issue
CreateWritesNoHistory ==
    last.op = "create_issue" =>
        /\ db.issue_history = last.before.issue_history
        /\ \A j \in 1..Len(last.writes) : last.writes[j].table # "issue_history"

\* C26 witness: an issue with assignee and component was created next to another issue
CreateWritesNoHistoryWitness ==
    /\ CreateSucceeded
    /\ last.request.assignee_id # None
    /\ last.request.component # None
    /\ Len(last.writes) = 5
    /\ last.before.issues_by_project # {}

(***************************************************************************)
(* created_at and updated_at.                                              *)
(***************************************************************************)
\* C27: every canonical row has updated_at >= created_at; the row that a create stored has
\* updated_at = created_at, the time of the create; after an update of an existing issue
\* the row has the created_at it had and, if the update succeeded, the time of the update
\* as updated_at
TimesInOrder ==
    /\ \A r \in db.issues_by_project : r.updated_at >= r.created_at
    /\ CreateSucceeded =>
          \E r \in db.issues_by_project :
             /\ CanonicalRows(db, last.issue_id) = {r}
             /\ r.created_at = last.now
             /\ r.updated_at = r.created_at
    /\ UpdateOfExisting =>
          \E r \in db.issues_by_project : \E q \in last.before.issues_by_project :
             /\ CanonicalRows(db, last.issue_id) = {r}
             /\ CanonicalRows(last.before, last.issue_id) = {q}
             /\ r.created_at = q.created_at
             /\ UpdateSucceeded => r.updated_at = last.now

\* C27 witness: the tables hold two issues created at different times, one by a create
\* whose last write failed, and an update of the older one was served
TimesInOrderWitness ==
    /\ Served
    /\ \E r, q \in db.issues_by_project :
          /\ r.created_at > q.created_at
          /\ q.issue_id = last.issue_id
          /\ r.updated_at = r.created_at
    /\ ~clean

(***************************************************************************)
(* One update, a different treatment of each view.                         *)
(***************************************************************************)
\* the last update supplied a status and nothing else, the status differs from the one the
\* issue had, and the issue had an assignee and a component
StatusAloneChanged ==
    /\ Served
    /\ Supplied = {"status"}
    /\ last.request.status \in AnyStatus
    /\ ~PyEq(ValuesBefore.status, Asked.status)
    /\ Truthy(ValuesBefore.assignee_id)
    /\ Truthy(ValuesBefore.component)

\* C28: an update that supplies only a changed status, on an issue with an assignee and a
\* component, sends a DELETE and then an INSERT to issues_by_status and to
\* issues_by_assignee, and one UPDATE under the unchanged key and nothing else to
\* issues_by_priority and to issues_by_component
ViewsSyncedIndependently ==
    StatusAloneChanged =>
        /\ OpsTo("issues_by_status") = <<"DELETE", "INSERT">>
        /\ OpsTo("issues_by_assignee") = <<"DELETE", "INSERT">>
        /\ \A table \in {"issues_by_priority", "issues_by_component"} :
              /\ OpsTo(table) = <<"UPDATE">>
              /\ BindRow(WritesTo(table)[1].key) = KeyOf(table, IssueAs(ValuesBefore))

(***************************************************************************)
(* Two updates of one issue that both ask to move a view row.              *)
(***************************************************************************)
\* C29: once two updates of an issue whose create has returned, each asking for another
\* status than the one the issue has, have both ended, every view holds at most one row
\* of the issue, issues_by_status and issues_by_priority exactly one, the row is keyed by
\* the values of the canonical row, and no row of the issue is keyed by the status it had
NoStaleRowsAfterOverlap ==
    [][(/\ SecondOfTwo
        /\ last.issue_id \in DOMAIN stored
        /\ KeyChanged("issues_by_status", ValuesBeforeOf(last), AskedOf(last))
        /\ KeyChanged("issues_by_status", ValuesBeforeOf(last), AskedOf(last')))
       => /\ \A table \in Views :
                LET rows == RowsOf(db', table, last.project_id, last.issue_id)
                IN /\ Cardinality(rows) <= 1
                   /\ table \in {"issues_by_status", "issues_by_priority"} => rows # {}
                   /\ \A v \in rows : \A r \in CanonicalRows(db', last.issue_id) :
                         \A k \in KeyFields(table) \cap Columns("issues_by_project") : v[k] = r[k]
          /\ RowsKeyed(db', "issues_by_status", last.project_id, last.issue_id,
                       ValuesBeforeOf(last)) = {}]_vars

(***************************************************************************)
(* The two definitions of update_issue side by side.                       *)
(***************************************************************************)
\* what a set of history rows says, event_id and changed_at left aside
Recorded(rows) ==
    {[field_changed |-> h.field_changed, old_value |-> h.old_value, new_value |-> h.new_value] :
        h \in rows}

\* C31: whenever the first definition has served an update, the second definition serving
\* the same request on the same tables reports the same status, leaves the canonical table
\* and the four views with the same rows, and adds history rows that say the same
DefinitionsEquivalent ==
    last.op = "update_issue" =>
        \A second \in update_issue(last.before, last.now, uuids, last.project_id, last.issue_id,
                                   last.request) :
           /\ second.status_code = last.status_code
           /\ \A table \in IssueTables : second.db[table] = db[table]
           /\ Recorded(second.db.issue_history \ last.before.issue_history) = Recorded(HistoryAdded)

(***************************************************************************)
(* The values of status and priority in the tables.                        *)
(***************************************************************************)
\* C32: in every state reached by creates and updates, every row of the canonical table and
\* of the four views has as status one of the five values of Status and as priority one of
\* the four values of Priority, and neither is null
StatusAndPriorityStored ==
    \A table \in IssueTables : \A r \in db[table] :
        /\ r.status \in {PyStr(s) : s \in StatusValues}
        /\ r.priority \in {PyStr(p) : p \in PriorityValues}

\* C32 witness: an update whose payload supplies the status as null was served on an issue
\* of priority high, and the tables hold a second issue
StatusAndPriorityStoredWitness ==
    /\ UpdateOfExisting
    /\ last.request = Body("status" :> None)
    /\ ValuesBefore.priority = PyStr("high")
    /\ Cardinality(db.issues_by_project) = 2

(***************************************************************************)
(* Issues of two projects, comments, and a storage that may fail any one   *)
(* statement of a request.                                                 *)
(***************************************************************************)
Comments == {[user_id |-> PyUUID("u1"), content |-> PyStr("c")]}

Comment == /\ \E target \in Addresses : \E comment \in Comments :
                create_comment(target[1], target[2], comment, 0)
           /\ UNCHANGED <<calls, manager, server>>

\* the storage fails no statement of a create, or its third
FrameFailPoints == {0, 3}

CreateInProject == /\ \E issue \in FewIssues : \E project_id \in Projects : \E failAt \in FrameFailPoints :
                         create_issue([issue EXCEPT !.project_id = project_id], failAt)
                   /\ UNCHANGED <<calls, manager, server>>

FrameBodies == {Body("status" :> Status("in_progress"))}

UpdateInProject == /\ \E target \in Addresses : \E issue_update \in FrameBodies :
                      \E select_raises \in BOOLEAN :
                         update_issue_first(target[1], target[2], issue_update, select_raises, 0)
                   /\ UNCHANGED <<calls, manager, server>>

NextFrame == CreateInProject \/ Comment \/ UpdateInProject

SpecFrame == Init /\ [][NextFrame]_vars

\* the rows of a table that belong to other issues than the one addressed
RowsOfOthers(d, table, issue_id) == {r \in d[table] : r.issue_id # issue_id}

\* C33: a create or an update of an issue, failed or not, leaves every row of every other
\* issue in the canonical table, the four views and the history as it was and leaves the
\* comments as they were; each of its statements addresses one of those six tables (none
\* the comments, the users or the projects) under the project and the id of the issue
OnlyOwnRowsTouched ==
    last.op \in {"create_issue", "update_issue"} =>
        /\ \A table \in IssueTables \cup {"issue_history"} :
              RowsOfOthers(db, table, last.issue_id) = RowsOfOthers(last.before, table, last.issue_id)
        /\ db.issue_comments = last.before.issue_comments
        /\ \A j \in 1..Len(last.writes) :
              /\ last.writes[j].table \in IssueTables \cup {"issue_history"}
              /\ last.writes[j].key.project_id = last.project_id
              /\ last.writes[j].key.issue_id = last.issue_id

\* C33 witness: an issue with assignee and component was created in a project that held
\* such an issue already, while the tables held a comment
OnlyOwnRowsTouchedWitness ==
    /\ CreateSucceeded
    /\ Len(last.writes) = 5
    /\ db.issue_comments # {}
    /\ \A table \in IssueTables :
          \E r \in RowsOfOthers(last.before, table, last.issue_id) : r.project_id = last.project_id

\* a second state in which the claim's case happens: an update of an issue that has a
\* comment was served while another project held an issue
OnlyOwnRowsTouchedAfterComment ==
    /\ Served
    /\ \E r \in db.issue_comments : r.issue_id = last.issue_id
    /\ \E r \in db.issues_by_project : r.project_id # last.project_id

(***************************************************************************)
(* main.py, get_project_statistics: four reads, no write.                  *)
(***************************************************************************)
\* SELECT column, COUNT(*) ... WHERE project_id = %s GROUP BY column, as the dict that the
\* handler builds: value of the column -> number of rows
CountBy(d, table, project_id, column) ==
    LET rows == {r \in d[table] : r.project_id = project_id}
    IN [x \in {r[column] : r \in rows} |-> Cardinality({r \in rows : r[column] = x})]

get_project_statistics(d, project_id) ==
    LET by_component == CountBy(d, "issues_by_component", project_id, "component")
    IN [project_id |-> project_id,
        total_issues |-> Cardinality({r \in d.issues_by_project : r.project_id = project_id}),
        issues_by_status |-> CountBy(d, "issues_by_status", project_id, "status"),
        issues_by_priority |-> CountBy(d, "issues_by_priority", project_id, "priority"),
        issues_by_component |-> [x \in {c \in DOMAIN by_component : Truthy(c)} |-> by_component[x]]]

\* the sum of the counts of a dict
RECURSIVE Total(_)
Total(counts) ==
    IF DOMAIN counts = {} THEN 0
    ELSE LET x == CHOOSE y \in DOMAIN counts : TRUE
         IN counts[x] + Total([y \in DOMAIN counts \ {x} |-> counts[y]])

\* the issues of a project that have a component
WithComponent(project_id) ==
    {issue_id \in DOMAIN stored :
        stored[issue_id].project_id = project_id /\ Truthy(stored[issue_id].component)}

\* C34: after requests none of which failed, the statistics of every project agree with one
\* another: total_issues is the sum of the counts by status and the sum of the counts by
\* priority, and the sum of the counts by component is the number of issues of the project
\* that have a component
StatisticsConsistent ==
    clean =>
        \A project_id \in Projects :
            LET statistics == get_project_statistics(db, project_id)
            IN /\ statistics.total_issues = Total(statistics.issues_by_status)
               /\ statistics.total_issues = Total(statistics.issues_by_priority)
               /\ Total(statistics.issues_by_component) = Cardinality(WithComponent(project_id))

\* C34 witness: a project with two issues of different priorities, one of them with a
\* component, after an update that asked for another priority of one of them was served
StatisticsConsistentWitness ==
    /\ clean
    /\ Served
    /\ KeyChanged("issues_by_priority", ValuesBefore, Asked)
    /\ get_project_statistics(db, last.project_id).total_issues = 2
    /\ Cardinality(DOMAIN get_project_statistics(db, last.project_id).issues_by_priority) = 2
    /\ Total(get_project_statistics(db, last.project_id).issues_by_component) = 1

(***************************************************************************)
(* The life of the serving process: main.py, the __main__ block, lifespan  *)
(* and get_db.  The module is imported with a manager that was only        *)
(* constructed.  "python main.py" connects and then calls uvicorn.run;     *)
(* "uvicorn main:app" imports the module and runs the lifespan protocol,   *)
(* unless the server was told not to (--lifespan off).                     *)
(***************************************************************************)
Imported == [launch |-> "", phase |-> "imported"]

WithoutLifespan == "uvicorn main:app --lifespan off"

RunsLifespan == server.launch # WithoutLifespan

\* the checks that follow connect() in lifespan and in the __main__ block
Established(self) == self.is_connected /\ self.session # None

\* what a call reports that is no issue handler
ReportCall(op, request, done, status_code, caught) ==
    Report(op, "", 0, request, 0, NoState, NoState, <<>>, [NoRun EXCEPT !.done = done],
           status_code, caught, NoResponse)

\* connect() followed by the two checks: the manager, and the exception that ends the start
connect_and_check(self, failure) ==
    LET call == connect(self, failure)
    IN IF call.raised # NoException THEN call
       ELSE IF ~Established(call.self) THEN [self |-> call.self, raised |-> Exception("RuntimeError")]
       ELSE call

InitLifecycle ==
    /\ db = [t \in Tables |-> {}]
    /\ clock = 0
    /\ uuids = 0
    /\ last = NoReport
    /\ stored = [i \in {} |-> NoResponse]
    /\ clean = TRUE
    /\ calls = [c \in Callers |-> Idle]
    /\ manager = CassandraManager
    /\ server = Imported

\* python main.py: connect, check, uvicorn.run; an exception is logged and raised again
Main ==
    /\ server.phase = "imported"
    /\ \E failure \in ConnectOutcomes :
          LET start == connect_and_check(manager, failure)
          IN /\ manager' = start.self
             /\ server' = [launch |-> "python main.py",
                           phase |-> IF start.raised = NoException THEN "started" ELSE "aborted"]
             /\ last' = ReportCall("__main__", [self |-> manager, failure |-> failure], 0, 0,
                                   start.raised)
    /\ UNCHANGED <<db, clock, uuids, stored, clean, calls>>

\* uvicorn main:app, with the lifespan protocol or without it
Uvicorn ==
    /\ server.phase = "imported"
    /\ \E launch \in {"uvicorn main:app", WithoutLifespan} :
          server' = [launch |-> launch, phase |-> "started"]
    /\ UNCHANGED <<db, clock, uuids, last, stored, clean, calls, manager>>

\* lifespan up to its yield: a manager that is not connected is connected and checked; an
\* exception ends the start-up and the server exits without serving
Startup ==
    /\ server.phase = "started"
    /\ RunsLifespan
    /\ \E failure \in ConnectOutcomes :
          LET start == IF ~manager.is_connected THEN connect_and_check(manager, failure)
                       ELSE [self |-> manager, raised |-> NoException]
          IN /\ manager.is_connected => failure = ""
             /\ manager' = start.self
             /\ server' = [server EXCEPT !.phase = IF start.raised = NoException THEN "serving"
                                                   ELSE "aborted"]
             /\ last' = ReportCall("lifespan", [self |-> manager, failure |-> failure], 0, 0,
                                   start.raised)
    /\ UNCHANGED <<db, clock, uuids, stored, clean, calls>>

\* a server that does not run the lifespan protocol serves at once
ServeAtOnce ==
    /\ server.phase = "started"
    /\ ~RunsLifespan
    /\ server' = [server EXCEPT !.phase = "serving"]
    /\ UNCHANGED <<db, clock, uuids, last, stored, clean, calls, manager>>

\* lifespan after its yield
Shutdown ==
    /\ server.phase = "serving"
    /\ RunsLifespan
    /\ manager' = close(manager)
    /\ server' = [server EXCEPT !.phase = "stopped"]
    /\ last' = ReportCall("close", [self |-> manager, failure |-> ""], 0, 0, NoException)
    /\ UNCHANGED <<db, clock, uuids, stored, clean, calls>>

\* a route with db = Depends(get_db): the dependency is resolved before the body of the
\* handler runs, and the HTTPException that it raises is the response
Unavailable(dependency) ==
    /\ last' = ReportCall("get_db", EmptyBody, 0, dependency.raised.status_code, NoException)
    /\ UNCHANGED <<db, clock, uuids, stored, clean>>

\* POST /issues: the first statement raises on a session that cannot be used
create_issue_route ==
    LET dependency == get_db(manager)
    IN IF dependency.raised # NoException THEN Unavailable(dependency)
       ELSE \E issue \in FewIssues :
               create_issue(issue, IF Usable(dependency.session) THEN 0 ELSE 1)

\* database.py, clear_tables: the tables in the order in which they are truncated; users
\* and projects are tables that no issue handler reads or writes
ClearOrder ==
    <<"users", "projects", "issues_by_project", "issues_by_status", "issues_by_assignee",
      "issues_by_priority", "issues_by_component", "issue_comments", "issue_history">>

\* the TRUNCATEs run one after another; the first that raises ends the loop, and the
\* exception is logged and raised again.  failAt = k > 0 makes the storage fail the k-th
RECURSIVE TruncateFrom(_, _, _)
TruncateFrom(d, i, failAt) ==
    IF i > Len(ClearOrder) THEN [db |-> d, done |-> Len(ClearOrder), raised |-> FALSE]
    ELSE IF i = failAt THEN [db |-> d, done |-> i - 1, raised |-> TRUE]
    ELSE TruncateFrom([t \in Tables |-> IF t = ClearOrder[i] THEN {} ELSE d[t]], i + 1, failAt)

clear_tables(d, failAt) == TruncateFrom(d, 1, failAt)

\* POST /admin/clear-data: clear_tables() works on the manager's session; whatever it raises
\* is caught and answered with ErrorStatus
clear_all_data ==
    LET dependency == get_db(manager)
    IN IF dependency.raised # NoException THEN Unavailable(dependency)
       ELSE \E failAt \in 0..Len(ClearOrder) :
            LET run == clear_tables(db, failAt)
            IN /\ ~Usable(manager.session) => failAt = 1
               /\ db' = run.db
               /\ last' = IF run.raised
                          THEN ReportCall("clear_all_data", EmptyBody, run.done,
                                          Except(Exception("StorageError")).status_code,
                                          Except(Exception("StorageError")).caught)
                          ELSE ReportCall("clear_all_data", EmptyBody, run.done, OkStatus,
                                          NoException)
               /\ UNCHANGED <<clock, uuids, stored, clean>>

(***************************************************************************)
(* database.py, seed_test_data: the tables are truncated and then filled   *)
(* with four users, two projects, four issues and two comments.  Every id  *)
(* is a uuid4 value and every timestamp a reading of datetime.now(); a     *)
(* list is built when the loop over the list before it has ended, so a     *)
(* call that raises has drawn the ids and read the clock of the lists it   *)
(* reached.  The texts of the source are Russian; the strings below are    *)
(* their transliterations.                                                 *)
(***************************************************************************)
\* the n-th uuid4 value of the process
Uuid4(n) == ToString(n)

\* drawn uuid4 values precede the list, now is the first reading of the clock for it
users_data(drawn, now) ==
    <<[user_id |-> PyUUID(Uuid4(drawn + 1)), username |-> PyStr("admin_user"),
       email |-> PyStr("admin@company.com"), role |-> PyStr("admin"), created_at |-> now],
      [user_id |-> PyUUID(Uuid4(drawn + 2)), username |-> PyStr("dev_user1"),
       email |-> PyStr("dev1@company.com"), role |-> PyStr("developer"), created_at |-> now + 1],
      [user_id |-> PyUUID(Uuid4(drawn + 3)), username |-> PyStr("dev_user2"),
       email |-> PyStr("dev2@company.com"), role |-> PyStr("developer"), created_at |-> now + 2],
      [user_id |-> PyUUID(Uuid4(drawn + 4)), username |-> PyStr("tester_user"),
       email |-> PyStr("tester@company.com"), role |-> PyStr("tester"), created_at |-> now + 3]>>

projects_data(drawn, now) ==
    <<[project_id |-> Uuid4(drawn + 1), name |-> PyStr("Web Application"),
       description |-> PyStr("Osnovnoe veb-prilozhenie kompanii"), created_at |-> now],
      [project_id |-> Uuid4(drawn + 2), name |-> PyStr("Mobile App"),
       description |-> PyStr("Mobilnoe prilozhenie dlya iOS i Android"), created_at |-> now + 1]>>

\* status and priority are plain strs; created_at and updated_at of an issue are two
\* readings of the clock
issues_data(users, projects, drawn, now) ==
    LET web_app_project == projects[1].project_id
        mobile_project == projects[2].project_id
        admin_user == users[1].user_id
        dev1_user == users[2].user_id
        dev2_user == users[3].user_id
        tester_user == users[4].user_id
    IN <<[project_id |-> web_app_project, issue_id |-> drawn + 1,
          title |-> PyStr("Oshibka avtorizatsii"),
          description |-> PyStr("Polzovateli ne mogut voiti v sistemu s pravilnymi credentials"),
          status |-> PyStr("open"), priority |-> PyStr("high"),
          assignee_id |-> dev1_user, reporter_id |-> tester_user,
          component |-> PyStr("authentication"), created_at |-> now, updated_at |-> now + 1],
         [project_id |-> web_app_project, issue_id |-> drawn + 2,
          title |-> PyStr("Medlennaya zagruzka stranitsy"),
          description |-> PyStr("Glavnaya stranitsa zagruzhaetsya bolee 5 sekund"),
          status |-> PyStr("in_progress"), priority |-> PyStr("medium"),
          assignee_id |-> dev2_user, reporter_id |-> admin_user,
          component |-> PyStr("performance"), created_at |-> now + 2, updated_at |-> now + 3],
         [project_id |-> web_app_project, issue_id |-> drawn + 3,
          title |-> PyStr("Nekorrektnoe otobrazhenie v Safari"),
          description |-> PyStr("Stranitsa profilya nekorrektno otobrazhaetsya v brauzere Safari"),
          status |-> PyStr("open"), priority |-> PyStr("low"),
          assignee_id |-> None, reporter_id |-> tester_user,
          component |-> PyStr("frontend"), created_at |-> now + 4, updated_at |-> now + 5],
         [project_id |-> mobile_project, issue_id |-> drawn + 4,
          title |-> PyStr("Krakh prilozheniya pri povorote ekrana"),
          description |-> PyStr("Prilozhenie krashitsya pri izmenenii orientatsii ekrana na glavnom ekrane"),
          status |-> PyStr("open"), priority |-> PyStr("critical"),
          assignee_id |-> dev1_user, reporter_id |-> tester_user,
          component |-> PyStr("ui"), created_at |-> now + 6, updated_at |-> now + 7]>>

comments_data(users, projects, issues, drawn, now) ==
    <<[project_id |-> projects[1].project_id, issue_id |-> issues[1].issue_id,
       comment_id |-> drawn + 1, user_id |-> users[2].user_id,
       content |-> PyStr("Nachinayu razbiratsya s etoi problemoi. Pokhozhe na issue s sessiyami."),
       created_at |-> now],
      [project_id |-> projects[1].project_id, issue_id |-> issues[1].issue_id,
       comment_id |-> drawn + 2, user_id |-> users[4].user_id,
       content |-> PyStr("Spasibo! Budu zhdat obnovlenii."),
       created_at |-> now + 1]>>

users_insert(user) ==
    Write("INSERT", "users", [user_id |-> user.user_id],
          [username |-> user.username, email |-> user.email, role |-> user.role,
           created_at |-> user.created_at])

projects_insert(project) ==
    Write("INSERT", "projects", [project_id |-> project.project_id],
          [name |-> project.name, description |-> project.description,
           created_at |-> project.created_at])

\* the body of "for issue in issues_data": the INSERTs of one issue
issue_inserts(issue) ==
    <<Write("INSERT", "issues_by_project",
        [project_id |-> issue.project_id, created_at |-> issue.created_at,
         issue_id |-> issue.issue_id],
        [title |-> issue.title, description |-> issue.description, status |-> issue.status,
         priority |-> issue.priority, assignee_id |-> issue.assignee_id,
         reporter_id |-> issue.reporter_id, updated_at |-> issue.updated_at]),
      Write("INSERT", "issues_by_status",
        [project_id |-> issue.project_id, status |-> issue.status,
         created_at |-> issue.created_at, issue_id |-> issue.issue_id],
        [title |-> issue.title, priority |-> issue.priority,
         assignee_id |-> issue.assignee_id])>>
    \o (IF Truthy(issue.assignee_id)
        THEN <<Write("INSERT", "issues_by_assignee",
                 [project_id |-> issue.project_id, assignee_id |-> issue.assignee_id,
                  status |-> issue.status, created_at |-> issue.created_at,
                  issue_id |-> issue.issue_id],
                 [title |-> issue.title, priority |-> issue.priority])>>
        ELSE <<>>)
    \o <<Write("INSERT", "issues_by_priority",
           [project_id |-> issue.project_id, priority |-> issue.priority,
            created_at |-> issue.created_at, issue_id |-> issue.issue_id],
           [title |-> issue.title, status |-> issue.status,
            assignee_id |-> issue.assignee_id])>>
    \o (IF Truthy(issue.component)
        THEN <<Write("INSERT", "issues_by_component",
                 [project_id |-> issue.project_id, component |-> issue.component,
                  created_at |-> issue.created_at, issue_id |-> issue.issue_id],
                 [title |-> issue.title, status |-> issue.status,
                  priority |-> issue.priority, assignee_id |-> issue.assignee_id])>>
        ELSE <<>>)

comments_insert(comment) ==
    Write("INSERT", "issue_comments",
          [project_id |-> comment.project_id, issue_id |-> comment.issue_id,
           created_at |-> comment.created_at, comment_id |-> comment.comment_id],
          [user_id |-> comment.user_id, content |-> comment.content])

\* the INSERTs of the four loops, list by list, for the ids and the readings that follow
\* drawn and now
SeedLists(drawn, now) ==
    LET users == users_data(drawn, now)
        projects == projects_data(drawn + 4, now + 4)
        issues == issues_data(users, projects, drawn + 6, now + 6)
        comments == comments_data(users, projects, issues, drawn + 10, now + 14)
    IN <<[uuid4 |-> 4, readings |-> 4,
          inserts |-> [i \in 1..4 |-> users_insert(users[i])]],
         [uuid4 |-> 2, readings |-> 2,
          inserts |-> [i \in 1..2 |-> projects_insert(projects[i])]],
         [uuid4 |-> 4, readings |-> 8,
          inserts |-> issue_inserts(issues[1]) \o issue_inserts(issues[2])
                      \o issue_inserts(issues[3]) \o issue_inserts(issues[4])],
         [uuid4 |-> 2, readings |-> 2,
          inserts |-> [i \in 1..2 |-> comments_insert(comments[i])]]>>

\* the INSERTs run one after another; users and projects are tables the model does not
\* keep, so an INSERT into one of them is a statement that may raise and stores nothing here
RECURSIVE InsertFrom(_, _, _, _)
InsertFrom(d, ws, i, failAt) ==
    IF i > Len(ws) THEN [db |-> d, done |-> Len(ws), raised |-> FALSE]
    ELSE IF i = failAt \/ Rejected(ws[i]) THEN [db |-> d, done |-> i - 1, raised |-> TRUE]
    ELSE InsertFrom(IF ws[i].table \in Tables THEN Execute(d, ws[i]) ELSE d, ws, i + 1, failAt)

\* the lists from the k-th on: a list is built, then inserted; the first statement that
\* raises ends the call.  run holds the tables, the statements done so far, the uuid4
\* values drawn and the readings of the clock; failAt counts the statements of the call
RECURSIVE SeedFrom(_, _, _, _)
SeedFrom(run, lists, k, failAt) ==
    IF k > Len(lists) THEN run
    ELSE LET list == lists[k]
             loop == InsertFrom(run.db, list.inserts, 1,
                                IF failAt > run.done THEN failAt - run.done ELSE 0)
             after == [db |-> loop.db, done |-> run.done + loop.done, raised |-> loop.raised,
                       uuid4 |-> run.uuid4 + list.uuid4,
                       readings |-> run.readings + list.readings]
         IN IF loop.raised THEN after ELSE SeedFrom(after, lists, k + 1, failAt)

\* the statements of seed_test_data at which the storage is made to fail: none, the first
\* TRUNCATE, the first INSERT (a user) and the issues_by_assignee INSERT of the first issue
SeedFailPoints == {0, 1, 10, 18}

\* those of reset_test_data: none, the first TRUNCATE of its own clear_tables(), and the
\* first TRUNCATE and the issues_by_assignee INSERT of the seed_test_data() after it
ResetFailPoints == {0, 1, Len(ClearOrder) + 1, Len(ClearOrder) + 18}

\* CassandraManager.seed_test_data on the tables d: clear_tables(), then the four lists.
\* The except clause logs the exception and raises it again
seed_test_data(d, drawn, now, failAt) ==
    LET cleared == clear_tables(d, failAt)
    IN IF cleared.raised
       THEN [db |-> cleared.db, done |-> cleared.done, raised |-> TRUE,
             uuid4 |-> 0, readings |-> 0]
       ELSE SeedFrom([db |-> cleared.db, done |-> cleared.done, raised |-> FALSE,
                      uuid4 |-> 0, readings |-> 0],
                     SeedLists(drawn, now), 1, failAt)

\* what the two routes answer: whatever the manager raised is caught and answered with
\* ErrorStatus
SeedReport(op, run) ==
    IF run.raised
    THEN ReportCall(op, EmptyBody, run.done, Except(Exception("StorageError")).status_code,
                    Except(Exception("StorageError")).caught)
    ELSE ReportCall(op, EmptyBody, run.done, OkStatus, NoException)

\* POST /admin/seed-data: the route does not depend on get_db; the body runs whatever the
\* manager's state, and on a session that is None or was shut down the first statement
\* raises
seed_test_data_route ==
    /\ clock < MaxClock
    /\ \E failAt \in SeedFailPoints :
          LET run == seed_test_data(db, uuids, clock, failAt)
          IN /\ ~Usable(manager.session) => failAt = 1
             /\ db' = run.db
             /\ clock' = clock + run.readings
             /\ uuids' = uuids + run.uuid4
             /\ last' = SeedReport("seed_test_data", run)
             /\ UNCHANGED <<stored, clean>>

\* POST /admin/reset-data: clear_tables(), then seed_test_data(), which clears again; no
\* dependency on get_db either
reset_test_data ==
    /\ clock < MaxClock
    /\ \E failAt \in ResetFailPoints :
          LET cleared == clear_tables(db, failAt)
              seeded == seed_test_data(cleared.db, uuids, clock,
                                       IF failAt > Len(ClearOrder)
                                       THEN failAt - Len(ClearOrder) ELSE 0)
              run == IF cleared.raised
                     THEN [db |-> cleared.db, done |-> cleared.done, raised |-> TRUE,
                           uuid4 |-> 0, readings |-> 0]
                     ELSE [seeded EXCEPT !.done = cleared.done + seeded.done]
          IN /\ ~Usable(manager.session) => failAt = 1
             /\ db' = run.db
             /\ clock' = clock + run.readings
             /\ uuids' = uuids + run.uuid4
             /\ last' = SeedReport("reset_test_data", run)
             /\ UNCHANGED <<stored, clean>>

ServeCreate ==
    /\ server.phase = "serving"
    /\ create_issue_route
    /\ UNCHANGED <<calls, manager, server>>

ServeClear ==
    /\ server.phase = "serving"
    /\ clear_all_data
    /\ UNCHANGED <<calls, manager, server>>

ServeSeed ==
    /\ server.phase = "serving"
    /\ seed_test_data_route
    /\ UNCHANGED <<calls, manager, server>>

ServeReset ==
    /\ server.phase = "serving"
    /\ reset_test_data
    /\ UNCHANGED <<calls, manager, server>>

NextLifecycle ==
    \/ Main \/ Uvicorn \/ Startup \/ ServeAtOnce
    \/ ServeCreate \/ ServeClear \/ ServeSeed \/ ServeReset
    \/ Shutdown

SpecLifecycle == InitLifecycle /\ [][NextLifecycle]_vars

\* C35: no request handler reaches the database before the connection is established.  In
\* every step: the body of a handler that depends on get_db runs only while is_connected is
\* true and the session is not None; a request met by get_db otherwise is answered with
\* 503, executes no statement and leaves every table as it was; a request of a route that
\* does not depend on get_db (seed-data, reset-data) that meets such a manager completes no
\* statement, changes no table, draws no id, and is answered with 500; a server that ran
\* the start-up serves only with is_connected true and a session that is not None; a start
\* that failed serves nothing (no step leaves the aborted state); no table changes before
\* the server serves, nor without a connected manager with an open session.
HandlersAfterConnection ==
    [][/\ (last' # last /\ last'.op \in {"create_issue", "clear_all_data"})
            => Established(manager)
       /\ (last' # last /\ last'.op \in {"seed_test_data", "reset_test_data"}
              /\ ~Established(manager))
            => /\ last'.status_code = ErrorStatus
               /\ last'.done = 0
               /\ db' = db /\ uuids' = uuids /\ clock' = clock
       /\ (last' # last /\ last'.op = "get_db")
            => /\ ~Established(manager)
               /\ last'.status_code = UnavailableStatus
               /\ last'.done = 0
               /\ db' = db
       /\ (server'.phase = "serving" /\ server'.launch # WithoutLifespan)
            => Established(manager')
       /\ server.phase # "aborted"
       /\ server.phase \in {"imported", "started"} => db' = db
       /\ db' # db => Established(manager) /\ Usable(manager.session)]_vars

\* an issue was created by a server whose lifespan start-up connected the manager
HandlersAfterConnectionWitness ==
    /\ server = [launch |-> "uvicorn main:app", phase |-> "serving"]
    /\ CreateSucceeded
    /\ db.issues_by_project # {}

\* a request was answered with 503 by a server that serves without having connected
RefusedWithoutConnection ==
    /\ server.phase = "serving"
    /\ last.op = "get_db"
    /\ last.status_code = UnavailableStatus
    /\ manager = CassandraManager

\* seed-data was asked of a server that serves without having connected, after a request
\* on a route with get_db was refused: the body ran and its first statement raised
SeedFailsWithoutConnection ==
    /\ server.phase = "serving"
    /\ manager = CassandraManager
    /\ last.op = "seed_test_data"
    /\ last.status_code = ErrorStatus
    /\ last.done = 0

\* the tables were seeded by a server whose start-up connected the manager, over an issue
\* that a create had stored
SeededAfterConnection ==
    /\ server = [launch |-> "uvicorn main:app", phase |-> "serving"]
    /\ last.op \in {"seed_test_data", "reset_test_data"}
    /\ last.status_code = OkStatus
    /\ DOMAIN stored # {}
    /\ Cardinality(db.issues_by_project) = 4

\* a start-up during which create_tables raised: the server never serves
StartupAborted ==
    /\ server = [launch |-> "uvicorn main:app", phase |-> "aborted"]
    /\ last.op = "lifespan"
    /\ last.caught = Exception("create_tables")

(***************************************************************************)
(* The manager as an object: connect() and close() called in any order,    *)
(* with requests served between the calls, through get_db or past it.      *)
(***************************************************************************)
Connect ==
    /\ \E failure \in ConnectOutcomes :
          LET call == connect(manager, failure)
          IN /\ manager' = call.self
             /\ last' = ReportCall("connect", [self |-> manager, failure |-> failure], 0, 0,
                                   call.raised)
    /\ UNCHANGED <<db, clock, uuids, stored, clean, calls, server>>

Close ==
    /\ manager' = close(manager)
    /\ last' = ReportCall("close", [self |-> manager, failure |-> ""], 0, 0, NoException)
    /\ UNCHANGED <<db, clock, uuids, stored, clean, calls, server>>

CreateThroughManager == create_issue_route /\ UNCHANGED <<calls, manager, server>>

ClearThroughManager == clear_all_data /\ UNCHANGED <<calls, manager, server>>

SeedThroughManager == seed_test_data_route /\ UNCHANGED <<calls, manager, server>>

ResetThroughManager == reset_test_data /\ UNCHANGED <<calls, manager, server>>

NextManager ==
    \/ Connect \/ Close
    \/ CreateThroughManager \/ ClearThroughManager
    \/ SeedThroughManager \/ ResetThroughManager

SpecManager == InitLifecycle /\ [][NextManager]_vars

\* C36: in every reachable state of the manager is_connected implies that session and
\* cluster are not None, and a connect() in which a step raised (cluster creation, session,
\* keyspace, table creation) has left is_connected false, session None and cluster None and
\* has raised the error again, whatever the manager was before, connected or not.
ManagerConsistent ==
    /\ manager.is_connected => manager.session # None /\ manager.cluster # None
    /\ (last.op = "connect" /\ last.request.failure \in Raising)
          => /\ manager.is_connected = FALSE
             /\ manager.session = None
             /\ manager.cluster = None
             /\ last.caught = Exception(last.request.failure)

\* create_tables raised inside connect() on a manager that was connected and had served
ManagerConsistentWitness ==
    /\ last.op = "connect"
    /\ last.request.failure = "create_tables"
    /\ last.request.self.is_connected
    /\ last.request.self.session = Session("open")
    /\ db.issues_by_project # {}
    /\ manager = CassandraManager

====
